---- MODULE Spec2Model ----
(***************************************************************************)
(* Verification model of the parallel multi-objective tabu-search engine   *)
(* (ts/abc, ts/d2d, ts/utils).                                              *)
(*                                                                         *)
(* Numbers.  Python floats are modelled as exact fixed-point integers.     *)
(* Costs handled by the Pareto containers are counted in ticks, with       *)
(* TicksPerStep ticks to 0.0001 (the precision of round(c, 4) and the      *)
(* tolerance of isclose).  Times of the D2D problem are whole seconds and  *)
(* are converted to ticks by SolutionMetricsMixin.cost.                    *)
(***************************************************************************)
EXTENDS Integers, Sequences, FiniteSets, TLC

VARIABLES
    results,      \* ParetoSet: [kind, cts (rounded cost -> set of solutions), length]
    plain,        \* a plain set used as Pareto container: [kind, items]
    added,        \* the solutions handed to results.add, in call order
    plain_added,  \* the solutions handed to add_to_pareto_set(plain), in call order
    ret,          \* the last add: [kind of container, added, removed, before (the container before the call)]
    tabu_list,    \* BaseNeighborhood._tabu_list (deque, head first)
    tabu_set,     \* BaseNeighborhood.tabu_set
    maxlen,       \* BaseNeighborhood._maxlen
    tabu_adds,    \* the keys handed to add_to_tabu since the registry was last reset while empty
    tabu_clean,   \* no reset_tabu happened on a non-empty registry
    problem,      \* the class attributes of D2DPathSolution set by import_problem / import_config
    solution,     \* a D2DPathSolution
    parent,       \* the solution that `solution` was made from
    last_op,      \* what made `solution`: "initial", "Swap", "Insert" or "shuffle"
    new_swap,     \* the outcome of the last Swap(solution, ...): [args (history), value]
    params,       \* the arguments of tabu_search and the tabu size set by d2d.py
    pc,           \* where tabu_search is: "idle", "for", "pool", "returned" or the exception raised
    iteration,    \* the loop variable of tabu_search
    current,      \* the list `current`
    propagate,    \* the list `propagate`, kept as the set that list(set(propagate)) makes of it
    extremes,     \* the list `extremes`
    last_improved,
    last_changed, \* history: the latest iteration in which the contents of `results` changed, 0 if none
    tabu,         \* the tabu registry of each neighborhood class
    tasks,        \* process_solution for each element of `current` (sources is history: the
                  \* neighborhoods whose candidates the task appended to propagate)
    calls,        \* the calls of before_iteration, after_iteration and shuffle so far: <<name, iteration>>
    returned      \* the set tabu_search returns

paretoVars == <<results, plain, added, plain_added, ret>>
tabuVars == <<tabu_list, tabu_set, maxlen, tabu_adds, tabu_clean>>
d2dVars == <<problem, solution, parent, last_op, new_swap>>
searchVars == <<params, pc, iteration, current, propagate, extremes, last_improved, last_changed, tabu,
                tasks,
                calls, returned>>
vars == <<results, plain, added, plain_added, ret, tabu_list, tabu_set, maxlen, tabu_adds, tabu_clean,
          problem, solution, parent, last_op, new_swap,
          params, pc, iteration, current, propagate, extremes, last_improved, last_changed, tabu,
          tasks, calls, returned>>

----------------------------------------------------------------------------
(* Bounds of the model *)

\* ticks per 0.0001 (resolution of the fixed-point costs)
TicksPerStep == 4
\* calls of add per run of the Pareto-container specification
MaxAdds == 3
\* moves enumerated per run of the find_best_candidates specification
MaxMoves == 3
\* candidates handled per run of the propagation-priority specification
MaxHandled == 3
\* candidates a thread gets from its generators per run of the lock specification
MaxYields == 2
\* calls of add_to_tabu per run of the tabu-registry specification
MaxTabuAdds == 5
\* number of distinct tabu keys
NumKeys == 4
\* largest capacity handed to reset_tabu
MaxCapacity == 2
\* largest --pool-size
MaxPoolSize == 2
\* largest --iterations
MaxIterations == 3
\* largest --max-propagation
MaxPropagation == 2
\* --iterations of the long run
LongIterations == 6
\* the lengths handed to Swap(...) are 0..MaxLength
MaxLength == 5

----------------------------------------------------------------------------
(* Generic helpers *)

Abs(x) == IF x < 0 THEN -x ELSE x

Min2(a, b) == IF a < b THEN a ELSE b

Max2(a, b) == IF a > b THEN a ELSE b

Range(seq) == {seq[i] : i \in DOMAIN seq}

\* all sequences that hold every element of S once
RECURSIVE Orderings(_)
Orderings(S) ==
    IF S = {} THEN {<<>>}
    ELSE UNION {{<<x>> \o o : o \in Orderings(S \ {x})} : x \in S}

Last(seq) == seq[Len(seq)]

RECURSIVE SumSeq(_)
SumSeq(seq) == IF Len(seq) = 0 THEN 0 ELSE Head(seq) + SumSeq(Tail(seq))

RECURSIVE MaxSeq(_)
MaxSeq(seq) ==
    IF Len(seq) = 1 THEN seq[1]
    ELSE LET m == MaxSeq(Tail(seq)) IN IF seq[1] > m THEN seq[1] ELSE m

\* ticks per 1.0
Scale == 10000 * TicksPerStep

----------------------------------------------------------------------------
(* ts/utils/py_utils.py *)

\* round(c, 4): nearest multiple of 0.0001, ties to the even multiple
Round4(x) ==
    LET q == x \div TicksPerStep
        r == x % TicksPerStep
    IN  IF 2 * r < TicksPerStep THEN q * TicksPerStep
        ELSE IF 2 * r > TicksPerStep THEN (q + 1) * TicksPerStep
        ELSE IF q % 2 = 0 THEN q * TicksPerStep
        ELSE (q + 1) * TicksPerStep

\* the tolerance of isclose, 0.0001, in ticks
Tolerance == TicksPerStep

isclose(first, second) == Abs(first - second) < Tolerance

RECURSIVE cost_dominate_from(_, _, _, _)
cost_dominate_from(first, second, i, result) ==
    IF i > Min2(Len(first), Len(second)) THEN result
    ELSE IF isclose(first[i], second[i]) THEN cost_dominate_from(first, second, i + 1, result)
    ELSE IF first[i] > second[i] THEN FALSE
    ELSE cost_dominate_from(first, second, i + 1, TRUE)

cost_dominate(first, second) == cost_dominate_from(first, second, 1, FALSE)

RECURSIVE build_pareto_front_from(_, _, _)
build_pareto_front_from(costs, i, result) ==
    IF i > Len(costs) THEN result
    ELSE IF \E c \in result : cost_dominate(costs[i], c)
         THEN build_pareto_front_from(costs, i + 1, result)
         ELSE build_pareto_front_from(costs, i + 1,
                  {c \in result : ~cost_dominate(c, costs[i])} \cup {costs[i]})

build_pareto_front(costs) == build_pareto_front_from(costs, 1, {})

----------------------------------------------------------------------------
(* ts/abc/multi_ob/costs.py *)

\* SolutionMetricsMixin.cost, in ticks
metrics_cost(s) ==
    << MaxSeq(s.drone_timespans \o s.technician_timespans) * Scale,
       (SumSeq([drone \in 1..Len(s.drone_waiting_times) |-> SumSeq(s.drone_waiting_times[drone])])
        + SumSeq(s.technician_waiting_times)) * Scale >>

\* BaseMulticostComparison.cost: the cost vector of an object, in ticks
cost(s) == IF "stored_cost" \in DOMAIN s THEN s.stored_cost ELSE metrics_cost(s)

\* __eq__/__hash__ of the objects kept in the containers
SolEq(s, t) == s.drone_paths = t.drone_paths /\ s.technician_paths = t.technician_paths

\* membership in a Python set
Member(s, S) == \E t \in S : SolEq(s, t)

\* a Python set built from the elements of S: one element per equality class
PySet(S) == {CHOOSE t \in S : SolEq(t, u) : u \in S}

dominate(s, other) == cost_dominate(cost(s), cost(other))

RoundedCostRaw(s) == cost(s)

\* __s_cost = tuple(round(c, 4) for c in __s.cost())
RoundedCost(s) == [i \in 1..Len(cost(s)) |-> Round4(cost(s)[i])]

EmptyParetoSet == [kind |-> "pareto", cts |-> <<>>, length |-> 0]

EmptyPlainSet == [kind |-> "set", items |-> {}]

RemovedCostsNone(cts, k) == {}

RemovedCosts(cts, k) == {c \in DOMAIN cts : cost_dominate(k, c)}

IsDominatedNever(cts, k) == FALSE

IsDominated(cts, k) == \E c \in DOMAIN cts : cost_dominate(c, k)

\* the length that counts one solution for the whole set of removed ones
LengthWithoutOne(length, removed) == IF removed = {} THEN length ELSE length - 1

\* self.__length -= len(removed)
LengthWithout(length, removed) == length - Cardinality(removed)

ParetoSet_add(ps, s) ==
    LET k == RoundedCost(s) IN
    IF k \in DOMAIN ps.cts
    THEN IF ~Member(s, ps.cts[k])
         THEN [container |-> [ps EXCEPT !.cts = [ps.cts EXCEPT ![k] = @ \cup {s}],
                                        !.length = @ + 1],
               added |-> TRUE, removed |-> {}]
         ELSE [container |-> ps, added |-> TRUE, removed |-> {}]
    ELSE LET removed_costs == RemovedCosts(ps.cts, k)
             removed == PySet(UNION {ps.cts[c] : c \in removed_costs})
             kept == [c \in (DOMAIN ps.cts) \ removed_costs |-> ps.cts[c]]
             length1 == LengthWithout(ps.length, removed)
         IN  IF IsDominated(kept, k)
             THEN [container |-> [ps EXCEPT !.cts = kept, !.length = length1],
                   added |-> FALSE, removed |-> removed]
             ELSE [container |-> [ps EXCEPT
                        !.cts = [c \in (DOMAIN kept) \cup {k} |-> IF c = k THEN {s} ELSE kept[c]],
                        !.length = length1 + 1],
                   added |-> TRUE, removed |-> removed]

add_to_pareto_set(s, container) ==
    IF container.kind = "pareto" THEN ParetoSet_add(container, s)
    ELSE LET to_remove == {o \in container.items : dominate(s, o)}
             rest == container.items \ to_remove
         IN  IF ~\E o \in rest : dominate(o, s)
             THEN [container |-> [container EXCEPT
                        !.items = IF Member(s, rest) THEN rest ELSE rest \cup {s}],
                   added |-> TRUE, removed |-> to_remove]
             ELSE [container |-> [container EXCEPT !.items = rest],
                   added |-> FALSE, removed |-> to_remove]

\* ParetoSet.keys
keys(ps) == DOMAIN ps.cts

\* ParetoSet.__iter__, as the collection of the stored solutions
Members(ps) == UNION {ps.cts[c] : c \in DOMAIN ps.cts}

----------------------------------------------------------------------------
(* ts/abc/bases.py: the tabu registry of one neighborhood class *)

RECURSIVE remove_from_tabu(_)
remove_from_tabu(reg) ==
    IF Cardinality(reg.set) > reg.maxlen
    THEN remove_from_tabu([reg EXCEPT !.set = @ \ {Head(reg.list)}, !.list = Tail(@)])
    ELSE reg

\* deque.rotate(n): n steps to the right, to the left for a negative n
rotate(list, n) ==
    IF Len(list) = 0 THEN list
    ELSE LET k == n % Len(list)
         IN  SubSeq(list, Len(list) - k + 1, Len(list)) \o SubSeq(list, 1, Len(list) - k)

\* while cls._tabu_list[0] != target: cls._tabu_list.rotate(-1); rotated += 1
RECURSIVE rotated_to(_, _, _)
rotated_to(list, target, rotated) ==
    IF Head(list) = target THEN [list |-> list, rotated |-> rotated]
    ELSE rotated_to(rotate(list, 0 - 1), target, rotated + 1)

\* the deque after the rotation to target, popleft() and rotate(rotated)
WithoutFirst(list, target) ==
    LET r == rotated_to(list, target, 0)
    IN  rotate(Tail(r.list), r.rotated)

\* add_to_tabu that takes the head of the deque out, without the rotation to target
add_to_tabu_head(reg, target) ==
    IF target \in reg.set
    THEN [reg EXCEPT !.list = Append(Tail(@), target)]
    ELSE [reg EXCEPT !.set = @ \cup {target}, !.list = Append(@, target)]

add_to_tabu_drop(reg, target) ==
    IF target \in reg.set
    THEN [reg EXCEPT !.list = Append(WithoutFirst(@, target), target)]
    ELSE [reg EXCEPT !.set = @ \cup {target}, !.list = Append(@, target)]

add_to_tabu(reg, target) ==
    IF target \in reg.set
    THEN [reg EXCEPT !.list = Append(WithoutFirst(@, target), target)]
    ELSE remove_from_tabu([reg EXCEPT !.set = @ \cup {target}, !.list = Append(@, target)])

\* reset_tabu that sets the capacity and evicts nothing
reset_tabu_keep(reg, m) == [reg EXCEPT !.maxlen = m]

reset_tabu(reg, m) == remove_from_tabu([reg EXCEPT !.maxlen = m])

\* cls._maxlen = 10 in __init_subclass__
DefaultMaxlen == 10

Registry == [set |-> tabu_set, list |-> tabu_list, maxlen |-> maxlen]

----------------------------------------------------------------------------
(* ts/d2d/solutions.py, ts/d2d/mixins.py, ts/d2d/config.py: the D2D problem *)
(* Nodes are 0 (depot) and 1..customers_count; paths, drones and           *)
(* technicians are numbered from 1 (Python index + 1).                     *)

\* float division, defined only where the quotient is a whole number
Div(a, b) == IF a % b = 0 THEN a \div b ELSE CHOOSE q \in {} : q * b = a

RECURSIVE Flatten(_)
Flatten(seqs) == IF Len(seqs) = 0 THEN <<>> ELSE Head(seqs) \o Flatten(Tail(seqs))

Reverse(seq) == [i \in 1..Len(seq) |-> seq[Len(seq) + 1 - i]]

\* path[1:-1]
Interior(path) == SubSeq(path, 2, Len(path) - 1)

RECURSIVE sqrt_between(_, _, _)
sqrt_between(n, lo, hi) ==
    IF lo >= hi THEN lo
    ELSE LET mid == (lo + hi) \div 2
         IN  IF mid * mid >= n THEN sqrt_between(n, lo, mid) ELSE sqrt_between(n, mid + 1, hi)

\* math.sqrt, defined only on perfect squares
sqrt(n) ==
    LET r == sqrt_between(n, 0, Min2(n, 4096))
    IN  IF r * r = n THEN r ELSE CHOOSE q \in {} : q * q = n

\* import_problem: distances[first][second] from the coordinates
euclidean_distances(x, y) ==
    [first \in DOMAIN x |-> [second \in DOMAIN x |->
        sqrt((x[first] - x[second]) * (x[first] - x[second])
             + (y[first] - y[second]) * (y[first] - y[second]))]]

\* the length in seconds of one period of TruckConfig.coefficients
Hour == 3600

customers_count == problem.customers_count
drones_count == problem.drones_count
technicians_count == problem.technicians_count
distances == problem.distances
demands == problem.demands
dronable == problem.dronable
drone_service_time == problem.drone_service_time
technician_service_time == problem.technician_service_time
truck_config == problem.truck_config
drone_config_mapping == problem.drone_config_mapping

\* energy_mode = LINEAR
get_drone_config(config_index) == problem.drone_linear_config[config_index]

\* DroneLinearConfig._power
power(config, weight) == config.beta * weight + config.gamma

takeoff_power(config, weight) == power(config, weight)

landing_power(config, weight) == power(config, weight)

cruise_power(config, weight) == power(config, weight)

RECURSIVE drone_arrivals_from(_, _, _, _)
drone_arrivals_from(path, config, i, result) ==
    IF i > Len(path) THEN result
    ELSE LET last == path[i - 1]
             index == path[i]
             vertical_time == Div(config.altitude, config.takeoff_speed)
                              + Div(config.altitude, config.landing_speed)
             shift == IF index = last THEN 0
                      ELSE drone_service_time[last] + vertical_time
                           + Div(distances[last][index], config.cruise_speed)
         IN  drone_arrivals_from(path, config, i + 1, Append(result, Last(result) + shift))

calculate_drone_arrival_timestamps(path, config_index, offset) ==
    drone_arrivals_from(path, get_drone_config(config_index), 2, <<offset>>)

calculate_drone_total_waiting_time(path, arrival_timestamps) ==
    SumSeq([j \in 1..(Len(path) - 2) |->
        Last(arrival_timestamps) - arrival_timestamps[j + 1] - drone_service_time[path[j + 1]]])

\* velocity = config.maximum_velocity * next(coefficients_iter), for the k-th draw
velocity(k) ==
    truck_config.maximum_velocity
    * truck_config.coefficients[((k - 1) % Len(truck_config.coefficients)) + 1]

\* while current_within_timespan >= 3600.0
RECURSIVE serve(_)
serve(st) ==
    IF st.within >= Hour THEN serve([st EXCEPT !.within = @ - Hour, !.k = @ + 1]) ELSE st

\* while distance > 0
RECURSIVE travel(_, _)
travel(st, distance) ==
    IF distance <= 0 THEN st
    ELSE LET v == velocity(st.k)
             time_shift == IF distance >= (Hour - st.within) * v
                           THEN Hour - st.within
                           ELSE Div(distance, v)
             st1 == [st EXCEPT !.timestamp = @ + time_shift, !.within = @ + time_shift]
             st2 == IF st1.within >= Hour THEN [st1 EXCEPT !.within = 0, !.k = @ + 1] ELSE st1
         IN  travel(st2, distance - time_shift * v)

RECURSIVE technician_arrivals_from(_, _, _, _)
technician_arrivals_from(path, i, st, result) ==
    IF i > Len(path) THEN result
    ELSE LET last == path[i - 1]
             served == serve([st EXCEPT
                          !.timestamp = Last(result) + technician_service_time[last],
                          !.within = @ + technician_service_time[last]])
             arrived == travel(served, distances[last][path[i]])
         IN  technician_arrivals_from(path, i + 1, arrived, Append(result, arrived.timestamp))

calculate_technician_arrival_timestamps(path) ==
    technician_arrivals_from(path, 2, [timestamp |-> 0, within |-> 0, k |-> 1], <<0>>)

calculate_technician_total_waiting_time(path, arrival_timestamps) ==
    SumSeq([j \in 1..(Len(path) - 2) |->
        Last(arrival_timestamps) - arrival_timestamps[j + 1] - technician_service_time[path[j + 1]]])

calculate_total_weight(path) == SumSeq([j \in 1..Len(path) |-> demands[path[j]]])

RECURSIVE energy_from(_, _, _, _, _)
energy_from(path, config, i, weight, result) ==
    IF i > Len(path) THEN result
    ELSE LET takeoff_time == Div(config.altitude, config.takeoff_speed)
             landing_time == Div(config.altitude, config.landing_speed)
             cruise_time == Div(distances[path[i - 1]][path[i]], config.cruise_speed)
         IN  energy_from(path, config, i + 1, weight + demands[path[i]],
                 result + takeoff_time * takeoff_power(config, weight)
                        + cruise_time * cruise_power(config, weight)
                        + landing_time * landing_power(config, weight))

calculate_drone_energy_consumption(path, config_index) ==
    energy_from(path, get_drone_config(config_index), 2, 0, 0)

\* None, and every other value that is false in `x or y` (the empty tuple)
None == <<>>

Or(x, y) == IF x = None THEN y ELSE x

RECURSIVE drone_arrivals_chain(_, _, _, _)
drone_arrivals_chain(paths, config_index, offset, result) ==
    IF Len(paths) = 0 THEN result
    ELSE LET arrivals == calculate_drone_arrival_timestamps(Head(paths), config_index, offset)
         IN  drone_arrivals_chain(Tail(paths), config_index, Last(arrivals), Append(result, arrivals))

get_arrival_timestamps(drone_paths) ==
    [drone \in 1..Len(drone_paths) |->
        drone_arrivals_chain(drone_paths[drone], drone_config_mapping[drone], 0, <<>>)]

\* __last_element: the last arrival of the last path, 0.0 when the drone has no path
last_element(arrivals) == IF Len(arrivals) = 0 THEN 0 ELSE Last(Last(arrivals))

\* D2DPathSolution.__init__ (arrival timestamps are never passed by a caller)
D2DPathSolution(drone_paths, technician_paths, drone_timespans, drone_waiting_times, technician_timespans, technician_waiting_times, fine) ==
    LET drone_arrival_timestamps == get_arrival_timestamps(drone_paths)
        technician_arrival_timestamps ==
            [t \in 1..Len(technician_paths) |->
                calculate_technician_arrival_timestamps(technician_paths[t])]
    IN  [to_propagate |-> TRUE,
         drone_paths |-> drone_paths,
         technician_paths |-> technician_paths,
         drone_arrival_timestamps |-> drone_arrival_timestamps,
         technician_arrival_timestamps |-> technician_arrival_timestamps,
         drone_timespans |-> Or(drone_timespans,
            [drone \in 1..Len(drone_paths) |-> last_element(drone_arrival_timestamps[drone])]),
         drone_waiting_times |-> Or(drone_waiting_times,
            [drone \in 1..Len(drone_paths) |-> [i \in 1..Len(drone_paths[drone]) |->
                calculate_drone_total_waiting_time(drone_paths[drone][i],
                                                   drone_arrival_timestamps[drone][i])]]),
         technician_timespans |-> Or(technician_timespans,
            [t \in 1..Len(technician_paths) |-> Last(technician_arrival_timestamps[t])]),
         technician_waiting_times |-> Or(technician_waiting_times,
            [t \in 1..Len(technician_paths) |->
                calculate_technician_total_waiting_time(technician_paths[t],
                                                        technician_arrival_timestamps[t])]),
         fine |-> fine]

\* min(candidates, key=distances[origin].__getitem__)
nearest(candidates, origin) ==
    CHOOSE e \in candidates : \A o \in candidates :
        \/ distances[origin][e] < distances[origin][o]
        \/ distances[origin][e] = distances[origin][o] /\ e <= o

RECURSIVE serve_technician_only(_, _, _)
serve_technician_only(paths, technician_only, t) ==
    IF technician_only = {} THEN paths
    ELSE LET index == nearest(technician_only, Last(paths[t]))
         IN  serve_technician_only([paths EXCEPT ![t] = Append(@, index)],
                                   technician_only \ {index},
                                   (t % technicians_count) + 1)

\* min(technician_paths, key=lambda path: distances[index][path[-2]]): first minimum
closest_technician(paths, index) ==
    CHOOSE t \in 1..Len(paths) : \A o \in 1..Len(paths) :
        \/ distances[index][paths[t][Len(paths[t]) - 1]] < distances[index][paths[o][Len(paths[o]) - 1]]
        \/ /\ distances[index][paths[t][Len(paths[t]) - 1]] = distances[index][paths[o][Len(paths[o]) - 1]]
           /\ t <= o

RECURSIVE serve_dronable(_, _, _, _)
serve_dronable(drone_paths, technician_paths, remaining, drone) ==
    IF remaining = {} THEN [drone_paths |-> drone_paths, technician_paths |-> technician_paths]
    ELSE LET paths == drone_paths[drone]
             path == Last(paths)
             config == get_drone_config(drone_config_mapping[drone])
             index == nearest(remaining, Last(path))
             hypothetical_path == path \o <<index, 0>>
             next_drone == (drone % drones_count) + 1
         IN  IF \/ calculate_total_weight(hypothetical_path) > config.capacity
                \/ calculate_drone_energy_consumption(hypothetical_path, drone_config_mapping[drone])
                        > config.battery
             THEN LET t == closest_technician(technician_paths, index)
                      tp == technician_paths[t]
                  IN  serve_dronable(
                          [drone_paths EXCEPT ![drone] =
                              Append([paths EXCEPT ![Len(paths)] = Append(path, 0)], <<0>>)],
                          [technician_paths EXCEPT ![t] =
                              SubSeq(tp, 1, Len(tp) - 1) \o <<index, 0>>],
                          remaining \ {index}, next_drone)
             ELSE serve_dronable(
                      [drone_paths EXCEPT ![drone] = [paths EXCEPT ![Len(paths)] = Append(path, index)]],
                      technician_paths, remaining \ {index}, next_drone)

LongPath(path) == Len(path) > 2

\* D2DPathSolution.initial
initial ==
    LET technician_paths ==
            LET served == serve_technician_only([t \in 1..technicians_count |-> <<0>>],
                              {e \in 1..customers_count : ~dronable[e]}, 1)
            IN  [t \in 1..technicians_count |-> Append(served[t], 0)]
        built == serve_dronable([drone \in 1..drones_count |-> << <<0>> >>], technician_paths,
                                {e \in 1..customers_count : dronable[e]}, 1)
        closed == [drone \in 1..drones_count |->
                      LET paths == built.drone_paths[drone]
                      IN  [paths EXCEPT ![Len(paths)] = Append(@, 0)]]
    IN  D2DPathSolution([drone \in 1..drones_count |-> SelectSeq(closed[drone], LongPath)],
                        built.technician_paths, None, None, None, None, 0)

\* all customers visited, as the sequence in which feasible() meets them
Visited(s) ==
    Flatten([drone \in 1..Len(s.drone_paths) |->
                Flatten([i \in 1..Len(s.drone_paths[drone]) |-> Interior(s.drone_paths[drone][i])])])
    \o Flatten([t \in 1..Len(s.technician_paths) |-> Interior(s.technician_paths[t])])

\* D2DPathSolution.feasible
feasible(s) ==
    /\ \A drone \in 1..Len(s.drone_paths) : \A i \in 1..Len(s.drone_paths[drone]) :
        LET drone_path == s.drone_paths[drone][i]
            config == get_drone_config(drone_config_mapping[drone])
        IN  /\ drone_path[1] = 0 /\ Last(drone_path) = 0
            /\ calculate_total_weight(drone_path) <= config.capacity
            /\ calculate_drone_energy_consumption(drone_path, drone_config_mapping[drone]) <= config.battery
    /\ \A t \in 1..Len(s.technician_paths) :
        s.technician_paths[t][1] = 0 /\ Last(s.technician_paths[t]) = 0
    /\ LET visited == Visited(s)
       IN  /\ \A a \in 1..Len(visited) : \A b \in 1..Len(visited) : a # b => visited[a] # visited[b]
           /\ Len(visited) = customers_count

\* D2DPathSolution.shuffle: drone_coins and technician_coins are the paths for which
\* random.random() < 0.5
shuffle(s, drone_coins, technician_coins) ==
    D2DPathSolution(
        [drone \in 1..Len(s.drone_paths) |-> [i \in 1..Len(s.drone_paths[drone]) |->
            IF <<drone, i>> \in drone_coins
            THEN Reverse(s.drone_paths[drone][i]) ELSE s.drone_paths[drone][i]]],
        [t \in 1..Len(s.technician_paths) |->
            IF t \in technician_coins THEN Reverse(s.technician_paths[t]) ELSE s.technician_paths[t]],
        s.drone_timespans, None, s.technician_timespans, None, 0)

----------------------------------------------------------------------------
(* ts/d2d/neighborhoods: SolutionFactory, Swap and Insert                  *)
(* A move is a SolutionFactory together with its tabu key (swaps_mapping). *)
(* Positions in a path are Python index + 1.                               *)
(* The key of an Insert move, ((first, last), node), is written              *)
(* <<<<first, last>>, <<node>>>>: keys of both classes are pairs of tuples.  *)

\* path with path[p : p + length] = segment
ReplaceSeg(path, p, length, segment) ==
    SubSeq(path, 1, p - 1) \o segment \o SubSeq(path, p + length, Len(path))

Segment(path, p, length) == SubSeq(path, p, p + length - 1)

\* the neighborhoods call get_drone_config() for the one drone configuration of the run
neighborhood_config_index == drone_config_mapping[1]

\* (total weight - capacity) / capacity when positive; in units of 1 / (capacity * battery)
capacity_violation(path) ==
    LET config == get_drone_config(neighborhood_config_index)
        excess == calculate_total_weight(path) - config.capacity
    IN  IF excess > 0 THEN excess * config.battery ELSE 0

\* (energy - battery) / battery when positive; in units of 1 / (capacity * battery)
energy_violation(path) ==
    LET config == get_drone_config(neighborhood_config_index)
        excess == calculate_drone_energy_consumption(path, neighborhood_config_index) - config.battery
    IN  IF excess > 0 THEN excess * config.capacity ELSE 0

\* offset of a drone path: the last arrival of the previous path of the drone
path_offset(s, drone, i) ==
    IF i > 1 THEN Last(s.drone_arrival_timestamps[drone][i - 1]) ELSE 0

new_drone_arrivals(s, drone, i, path) ==
    calculate_drone_arrival_timestamps(path, neighborhood_config_index, path_offset(s, drone, i))

\* _drone_timespans[drone] += arrivals[-1] - solution.drone_arrival_timestamps[drone][i][-1]
shift_drone_timespan(s, timespans, drone, i, arrivals) ==
    [timespans EXCEPT ![drone] = @ + Last(arrivals) - Last(s.drone_arrival_timestamps[drone][i])]

SolutionFactory(append_drones, update_drones, update_technicians, drone_timespans, drone_waiting_times, technician_timespans, technician_waiting_times, fine) ==
    [append_drones |-> append_drones,
     update_drones |-> update_drones,
     update_technicians |-> update_technicians,
     drone_timespans |-> drone_timespans,
     drone_waiting_times |-> drone_waiting_times,
     technician_timespans |-> technician_timespans,
     technician_waiting_times |-> technician_waiting_times,
     fine |-> fine]

RECURSIVE without_indices(_, _, _)
without_indices(seq, drop, i) ==
    IF i > Len(seq) THEN <<>>
    ELSE (IF i \in drop THEN <<>> ELSE <<seq[i]>>) \o without_indices(seq, drop, i + 1)

RECURSIVE append_paths(_, _)
append_paths(drone_paths, append_drones) ==
    IF Len(append_drones) = 0 THEN drone_paths
    ELSE LET drone == Head(append_drones)[1]
             new_path == Head(append_drones)[2]
         IN  append_paths(IF new_path # <<0, 0>>
                          THEN [drone_paths EXCEPT ![drone] = Append(@, new_path)]
                          ELSE drone_paths,
                          Tail(append_drones))

RECURSIVE update_paths(_, _)
update_paths(drone_paths, update_drones) ==
    IF Len(update_drones) = 0 THEN drone_paths
    ELSE LET u == Head(update_drones)
         IN  update_paths([drone_paths EXCEPT ![u[1]][u[2]] = u[3]], Tail(update_drones))

update_technician_paths_skip(technician_paths, update_technicians) == technician_paths

RECURSIVE update_technician_paths(_, _)
update_technician_paths(technician_paths, update_technicians) ==
    IF Len(update_technicians) = 0 THEN technician_paths
    ELSE LET u == Head(update_technicians)
         IN  update_technician_paths([technician_paths EXCEPT ![u[1]] = u[2]],
                                     Tail(update_technicians))

\* SolutionFactory.from_solution
from_solution(f, s) ==
    LET to_remove == {<<f.update_drones[u][2], f.update_drones[u][1]>> :
                        u \in {v \in 1..Len(f.update_drones) : f.update_drones[v][3] = <<0, 0>>}}
        dropped(drone) == {r[1] : r \in {q \in to_remove : q[2] = drone}}
        changed == update_paths(append_paths(s.drone_paths, f.append_drones), f.update_drones)
        drone_paths ==
            IF Len(f.append_drones) + Len(f.update_drones) > 0
            THEN [drone \in 1..Len(changed) |-> without_indices(changed[drone], dropped(drone), 1)]
            ELSE s.drone_paths
        drone_waiting_times ==
            IF Len(f.append_drones) + Len(f.update_drones) > 0 /\ to_remove # {}
            THEN [drone \in 1..Len(f.drone_waiting_times) |->
                    without_indices(f.drone_waiting_times[drone], dropped(drone), 1)]
            ELSE f.drone_waiting_times
        technician_paths ==
            IF Len(f.update_technicians) > 0
            THEN update_technician_paths(s.technician_paths, f.update_technicians)
            ELSE s.technician_paths
    IN  D2DPathSolution(drone_paths, technician_paths, f.drone_timespans, drone_waiting_times,
                        f.technician_timespans, f.technician_waiting_times, f.fine)

\* all (drone, path index) of a solution, in the order of the list `paths`
path_slots(s) ==
    UNION {{<<drone, i>> : i \in 1..Len(s.drone_paths[drone])} : drone \in 1..Len(s.drone_paths)}

slot_before(a, b) == a[1] < b[1] \/ (a[1] = b[1] /\ a[2] < b[2])

\* itertools.combinations when the two lengths are equal, itertools.permutations otherwise
slot_pairs(s, first_length, second_length) ==
    {pair \in path_slots(s) \X path_slots(s) :
        IF first_length = second_length THEN slot_before(pair[1], pair[2]) ELSE pair[1] # pair[2]}

index_pairs(n, first_length, second_length) ==
    {pair \in (1..n) \X (1..n) :
        IF first_length = second_length THEN pair[1] < pair[2] ELSE pair[1] # pair[2]}

\* Swap.swap_drone_drone, one iteration of the inner loop
swap_drone_drone_move(s, first, second, first_start, second_start, first_length, second_length) ==
    LET first_path == s.drone_paths[first[1]][first[2]]
        second_path == s.drone_paths[second[1]][second[2]]
        new_first == ReplaceSeg(first_path, first_start, first_length,
                                Segment(second_path, second_start, second_length))
        new_second == ReplaceSeg(second_path, second_start, second_length,
                                 Segment(first_path, first_start, first_length))
        first_arrival_timestamps == new_drone_arrivals(s, first[1], first[2], new_first)
        second_arrival_timestamps == new_drone_arrivals(s, second[1], second[2], new_second)
        timespans == shift_drone_timespan(s,
                        shift_drone_timespan(s, s.drone_timespans, first[1], first[2], first_arrival_timestamps),
                        second[1], second[2], second_arrival_timestamps)
        waiting == [[s.drone_waiting_times EXCEPT ![first[1]][first[2]] =
                        calculate_drone_total_waiting_time(new_first, first_arrival_timestamps)]
                    EXCEPT ![second[1]][second[2]] =
                        calculate_drone_total_waiting_time(new_second, second_arrival_timestamps)]
    IN  [factory |-> SolutionFactory(<<>>,
                        << <<first[1], first[2], new_first>>, <<second[1], second[2], new_second>> >>,
                        <<>>, timespans, waiting, s.technician_timespans, s.technician_waiting_times,
                        capacity_violation(new_first) + capacity_violation(new_second)
                        + energy_violation(new_first) + energy_violation(new_second)),
         pair |-> << <<first_path[first_start], first_path[first_start + first_length - 1]>>,
                     <<second_path[second_start], second_path[second_start + second_length - 1]>> >>]

\* Swap.find_best_candidates.drone_drone_swap and Swap.swap_drone_drone
swap_drone_drone(s, first_length, second_length) ==
    UNION {
        {swap_drone_drone_move(s, pair[1], pair[2], starts[1], starts[2], first_length, second_length) :
            starts \in (2..(Len(s.drone_paths[pair[1][1]][pair[1][2]]) - first_length))
                       \X (2..(Len(s.drone_paths[pair[2][1]][pair[2][2]]) - second_length))} :
        pair \in {q \in slot_pairs(s, first_length, second_length) :
                    \/ Len(s.drone_paths[q[1][1]][q[1][2]]) - 2 > first_length
                    \/ Len(s.drone_paths[q[2][1]][q[2][2]]) - 2 > second_length}}

swap_technician_technician_move(s, first, second, first_start, second_start, first_length, second_length) ==
    LET first_path == s.technician_paths[first]
        second_path == s.technician_paths[second]
        new_first == ReplaceSeg(first_path, first_start, first_length,
                                Segment(second_path, second_start, second_length))
        new_second == ReplaceSeg(second_path, second_start, second_length,
                                 Segment(first_path, first_start, first_length))
        first_arrival_timestamps == calculate_technician_arrival_timestamps(new_first)
        second_arrival_timestamps == calculate_technician_arrival_timestamps(new_second)
    IN  [factory |-> SolutionFactory(<<>>, <<>>, << <<first, new_first>>, <<second, new_second>> >>,
                        s.drone_timespans, s.drone_waiting_times,
                        [[s.technician_timespans EXCEPT ![first] = Last(first_arrival_timestamps)]
                            EXCEPT ![second] = Last(second_arrival_timestamps)],
                        [[s.technician_waiting_times EXCEPT ![first] =
                            calculate_technician_total_waiting_time(new_first, first_arrival_timestamps)]
                            EXCEPT ![second] =
                            calculate_technician_total_waiting_time(new_second, second_arrival_timestamps)],
                        0),
         pair |-> << <<first_path[first_start], first_path[first_start + first_length - 1]>>,
                     <<second_path[second_start], second_path[second_start + second_length - 1]>> >>]

\* Swap.find_best_candidates.technician_technician_swap and Swap.swap_technician_technician
swap_technician_technician(s, first_length, second_length) ==
    UNION {
        {swap_technician_technician_move(s, pair[1], pair[2], starts[1], starts[2],
                                         first_length, second_length) :
            starts \in (2..(Len(s.technician_paths[pair[1]]) - first_length))
                       \X (2..(Len(s.technician_paths[pair[2]]) - second_length))} :
        pair \in index_pairs(technicians_count, first_length, second_length)}

dronable_segment_any(path, start, length) == TRUE

\* dronable_prefix_sum[start + length - 1] - dronable_prefix_sum[start - 1] == length
dronable_segment(path, start, length) ==
    \A p \in start..(start + length - 1) : dronable[path[p]]

\* Swap.swap_technician_drone.populate_results, one iteration of the inner loop
swap_technician_drone_move(s, technician, slot, technician_start, drone_start, technician_length, drone_length) ==
    LET technician_path == s.technician_paths[technician]
        drone_path == s.drone_paths[slot[1]][slot[2]]
        new_technician == ReplaceSeg(technician_path, technician_start, technician_length,
                                     Segment(drone_path, drone_start, drone_length))
        new_drone == ReplaceSeg(drone_path, drone_start, drone_length,
                                Segment(technician_path, technician_start, technician_length))
        technician_arrival_timestamps == calculate_technician_arrival_timestamps(new_technician)
        drone_arrival_timestamps == new_drone_arrivals(s, slot[1], slot[2], new_drone)
    IN  [factory |-> SolutionFactory(<<>>, << <<slot[1], slot[2], new_drone>> >>,
                        << <<technician, new_technician>> >>,
                        shift_drone_timespan(s, s.drone_timespans, slot[1], slot[2], drone_arrival_timestamps),
                        [s.drone_waiting_times EXCEPT ![slot[1]][slot[2]] =
                            calculate_drone_total_waiting_time(new_drone, drone_arrival_timestamps)],
                        [s.technician_timespans EXCEPT ![technician] = Last(technician_arrival_timestamps)],
                        [s.technician_waiting_times EXCEPT ![technician] =
                            calculate_technician_total_waiting_time(new_technician,
                                                                    technician_arrival_timestamps)],
                        capacity_violation(new_drone) + energy_violation(new_drone)),
         pair |-> << <<technician_path[technician_start],
                       technician_path[technician_start + technician_length - 1]>>,
                     <<drone_path[drone_start], drone_path[drone_start + drone_length - 1]>> >>]

populate_results(s, technician, slot, technician_length, drone_length) ==
    UNION {
        {swap_technician_drone_move(s, technician, slot, technician_start, drone_start,
                                    technician_length, drone_length) :
            drone_start \in 2..(Len(s.drone_paths[slot[1]][slot[2]]) - drone_length)} :
        technician_start \in {p \in 2..(Len(s.technician_paths[technician]) - technician_length) :
                                dronable_segment(s.technician_paths[technician], p, technician_length)}}

\* Swap.find_best_candidates.technician_drone_swap and Swap.swap_technician_drone
swap_technician_drone(s, first_length, second_length) ==
    UNION {
        populate_results(s, arg[1], arg[2], first_length, second_length)
        \cup (IF first_length # second_length
              THEN populate_results(s, arg[1], arg[2], second_length, first_length) ELSE {}) :
        arg \in (1..technicians_count) \X path_slots(s)}

\* the two slice assignments of the self swaps
swap_within(path, first_index, second_index, first_length, second_length) ==
    SubSeq(path, 1, first_index - 1)
    \o Segment(path, second_index, second_length)
    \o SubSeq(path, first_index + first_length, second_index - 1)
    \o Segment(path, first_index, first_length)
    \o SubSeq(path, second_index + second_length, Len(path))

self_swap_indices(path, first_length, second_length) ==
    UNION {{<<first_index, second_index>> :
                second_index \in (first_index + first_length)..(Len(path) - second_length)} :
           first_index \in 2..(Len(path) - (first_length + second_length))}

swap_drone_self_move(s, slot, first_index, second_index, first_length, second_length) ==
    LET path == s.drone_paths[slot[1]][slot[2]]
        new_path == swap_within(path, first_index, second_index, first_length, second_length)
        arrival_timestamps == calculate_drone_arrival_timestamps(new_path, neighborhood_config_index,
                                  s.drone_arrival_timestamps[slot[1]][slot[2]][1])
    IN  [factory |-> SolutionFactory(<<>>, << <<slot[1], slot[2], new_path>> >>, <<>>,
                        shift_drone_timespan(s, s.drone_timespans, slot[1], slot[2], arrival_timestamps),
                        [s.drone_waiting_times EXCEPT ![slot[1]][slot[2]] =
                            calculate_drone_total_waiting_time(new_path, arrival_timestamps)],
                        s.technician_timespans, s.technician_waiting_times,
                        capacity_violation(new_path) + energy_violation(new_path)),
         pair |-> << <<path[first_index], path[first_index + first_length - 1]>>,
                     <<path[second_index], path[second_index + second_length - 1]>> >>]

\* Swap.find_best_candidates.drone_self_swap and Swap.swap_drone_self
swap_drone_self(s, first_length, second_length) ==
    UNION {
        {swap_drone_self_move(s, slot, ij[1], ij[2], first_length, second_length) :
            ij \in self_swap_indices(s.drone_paths[slot[1]][slot[2]], first_length, second_length)} :
        slot \in {q \in path_slots(s) :
                    Len(s.drone_paths[q[1]][q[2]]) - 2 >= first_length + second_length}}

swap_technician_self_move(s, technician, first_index, second_index, first_length, second_length) ==
    LET path == s.technician_paths[technician]
        new_path == swap_within(path, first_index, second_index, first_length, second_length)
        arrival_timestamps == calculate_technician_arrival_timestamps(new_path)
    IN  [factory |-> SolutionFactory(<<>>, <<>>, << <<technician, new_path>> >>,
                        s.drone_timespans, s.drone_waiting_times,
                        [s.technician_timespans EXCEPT ![technician] = Last(arrival_timestamps)],
                        [s.technician_waiting_times EXCEPT ![technician] =
                            calculate_technician_total_waiting_time(new_path, arrival_timestamps)],
                        0),
         pair |-> << <<path[first_index], path[first_index + first_length - 1]>>,
                     <<path[second_index], path[second_index + second_length - 1]>> >>]

\* Swap.find_best_candidates.technician_self_swap and Swap.swap_technician_self
swap_technician_self(s, first_length, second_length) ==
    UNION {
        {swap_technician_self_move(s, technician, ij[1], ij[2], first_length, second_length) :
            ij \in self_swap_indices(s.technician_paths[technician], first_length, second_length)} :
        technician \in {t \in 1..technicians_count :
                          Len(s.technician_paths[t]) - 2 >= first_length + second_length}}

\* path with the segment inserted before position `location`
InsertSeg(path, location, segment) == ReplaceSeg(path, location, 0, segment)

insert_technician_technician_move(s, i, j, point_i, location_j, length) ==
    LET i_path == s.technician_paths[i]
        j_path == s.technician_paths[j]
        pj == InsertSeg(j_path, location_j, Segment(i_path, point_i, length))
        pi == ReplaceSeg(i_path, point_i, length, <<>>)
        first_arrival_timestamps == calculate_technician_arrival_timestamps(pi)
        second_arrival_timestamps == calculate_technician_arrival_timestamps(pj)
    IN  [factory |-> SolutionFactory(<<>>, <<>>, << <<i, pi>>, <<j, pj>> >>,
                        s.drone_timespans, s.drone_waiting_times,
                        [[s.technician_timespans EXCEPT ![i] = Last(first_arrival_timestamps)]
                            EXCEPT ![j] = Last(second_arrival_timestamps)],
                        [[s.technician_waiting_times EXCEPT ![i] =
                            calculate_technician_total_waiting_time(pi, first_arrival_timestamps)]
                            EXCEPT ![j] =
                            calculate_technician_total_waiting_time(pj, second_arrival_timestamps)],
                        0),
         pair |-> << <<i_path[point_i], i_path[point_i + length - 1]>>, <<j_path[location_j]>> >>]

\* Insert.find_best_candidates.swap_technician_technician and Insert.swap_technician_technician
insert_technician_technician(s, length) ==
    UNION {
        {insert_technician_technician_move(s, pair[1], pair[2], at[1], at[2], length) :
            at \in (2..(Len(s.technician_paths[pair[1]]) - length))
                   \X (2..(Len(s.technician_paths[pair[2]]) - 1))} :
        pair \in {q \in (1..technicians_count) \X (1..technicians_count) : q[1] # q[2]}}

\* Insert.swap_drone_drone.create_new, one iteration of its loop
insert_drone_drone_new_move(s, first_drone, first_path_index, second_drone, first_point, length) ==
    LET first_path == s.drone_paths[first_drone][first_path_index]
        new_first == ReplaceSeg(first_path, first_point, length, <<>>)
        new_second == <<0>> \o Segment(first_path, first_point, length) \o <<0>>
        first_arrival_timestamps == new_drone_arrivals(s, first_drone, first_path_index, new_first)
        second_arrival_timestamps ==
            calculate_drone_arrival_timestamps(new_second, neighborhood_config_index,
                                               s.drone_timespans[second_drone])
        shifted == shift_drone_timespan(s, s.drone_timespans, first_drone, first_path_index,
                                        first_arrival_timestamps)
    IN  [factory |-> SolutionFactory(<< <<second_drone, new_second>> >>,
                        << <<first_drone, first_path_index, new_first>> >>, <<>>,
                        [shifted EXCEPT ![second_drone] =
                            @ + Last(second_arrival_timestamps) - second_arrival_timestamps[1]],
                        [[s.drone_waiting_times EXCEPT ![first_drone][first_path_index] =
                            calculate_drone_total_waiting_time(new_first, first_arrival_timestamps)]
                            EXCEPT ![second_drone] = Append(@,
                            calculate_drone_total_waiting_time(new_second, second_arrival_timestamps))],
                        s.technician_timespans, s.technician_waiting_times,
                        capacity_violation(new_second)),
         pair |-> << <<first_path[first_point], first_path[first_point + length - 1]>>, <<0>> >>]

\* Insert.swap_drone_drone, one iteration of the loop over the existing paths
insert_drone_drone_move(s, first_drone, first_path_index, second_drone, second_path_index, first_point, second_location, length) ==
    LET first_path == s.drone_paths[first_drone][first_path_index]
        second_path == s.drone_paths[second_drone][second_path_index]
        p2 == InsertSeg(second_path, second_location, Segment(first_path, first_point, length))
        p1 == ReplaceSeg(first_path, first_point, length, <<>>)
        first_arrival_timestamps == new_drone_arrivals(s, first_drone, first_path_index, p1)
        second_arrival_timestamps == new_drone_arrivals(s, second_drone, second_path_index, p2)
    IN  [factory |-> SolutionFactory(<<>>,
                        << <<first_drone, first_path_index, p1>>, <<second_drone, second_path_index, p2>> >>,
                        <<>>,
                        shift_drone_timespan(s,
                            shift_drone_timespan(s, s.drone_timespans, first_drone, first_path_index,
                                                 first_arrival_timestamps),
                            second_drone, second_path_index, second_arrival_timestamps),
                        [[s.drone_waiting_times EXCEPT ![first_drone][first_path_index] =
                            calculate_drone_total_waiting_time(p1, first_arrival_timestamps)]
                            EXCEPT ![second_drone][second_path_index] =
                            calculate_drone_total_waiting_time(p2, second_arrival_timestamps)],
                        s.technician_timespans, s.technician_waiting_times,
                        capacity_violation(p2) + energy_violation(p2)),
         pair |-> << <<first_path[first_point], first_path[first_point + length - 1]>>,
                     <<second_path[second_location]>> >>]

\* Insert.find_best_candidates.swap_drone_drone and Insert.swap_drone_drone
insert_drone_drone(s, length) ==
    UNION {
        UNION {
            (IF Len(s.drone_paths[pair[1]][first_path_index]) - 2 > length
             THEN {insert_drone_drone_new_move(s, pair[1], first_path_index, pair[2], first_point, length) :
                     first_point \in 2..(Len(s.drone_paths[pair[1]][first_path_index]) - length)}
             ELSE {})
            \cup UNION {
                {insert_drone_drone_move(s, pair[1], first_path_index, pair[2], second_path_index,
                                         at[1], at[2], length) :
                    at \in (2..(Len(s.drone_paths[pair[1]][first_path_index]) - length))
                           \X (2..(Len(s.drone_paths[pair[2]][second_path_index]) - 1))} :
                second_path_index \in 1..Len(s.drone_paths[pair[2]])} :
            first_path_index \in 1..Len(s.drone_paths[pair[1]])} :
        pair \in {q \in (1..drones_count) \X (1..drones_count) : q[1] # q[2]}}

insert_drone_technician_move(s, drone, drone_path_index, technician, drone_point, location_tech, length) ==
    LET tech_path == s.technician_paths[technician]
        drone_path == s.drone_paths[drone][drone_path_index]
        new_tech == InsertSeg(tech_path, location_tech, Segment(drone_path, drone_point, length))
        new_drone == ReplaceSeg(drone_path, drone_point, length, <<>>)
        tech_arrival_timestamps == calculate_technician_arrival_timestamps(new_tech)
        drone_arrival_timestamps == new_drone_arrivals(s, drone, drone_path_index, new_drone)
    IN  [factory |-> SolutionFactory(<<>>, << <<drone, drone_path_index, new_drone>> >>,
                        << <<technician, new_tech>> >>,
                        shift_drone_timespan(s, s.drone_timespans, drone, drone_path_index,
                                             drone_arrival_timestamps),
                        [s.drone_waiting_times EXCEPT ![drone][drone_path_index] =
                            calculate_drone_total_waiting_time(new_drone, drone_arrival_timestamps)],
                        [s.technician_timespans EXCEPT ![technician] = Last(tech_arrival_timestamps)],
                        [s.technician_waiting_times EXCEPT ![technician] =
                            calculate_technician_total_waiting_time(new_tech, tech_arrival_timestamps)],
                        0),
         pair |-> << <<drone_path[drone_point], drone_path[drone_point + length - 1]>>,
                     <<tech_path[location_tech]>> >>]

\* Insert.find_best_candidates.swap_drone_technician and Insert.swap_drone_technician
insert_drone_technician(s, length) ==
    UNION {
        UNION {
            {insert_drone_technician_move(s, pair[1], drone_path_index, pair[2], at[1], at[2], length) :
                at \in (2..(Len(s.drone_paths[pair[1]][drone_path_index]) - length))
                       \X (2..(Len(s.technician_paths[pair[2]]) - 1))} :
            drone_path_index \in 1..Len(s.drone_paths[pair[1]])} :
        pair \in (1..drones_count) \X (1..technicians_count)}

\* Insert.swap_technician_drone.create_new
insert_technician_drone_new_move(s, technician, drone, tech_point, length) ==
    LET tech_path == s.technician_paths[technician]
        new_tech == ReplaceSeg(tech_path, tech_point, length, <<>>)
        new_drone == <<0>> \o Segment(tech_path, tech_point, length) \o <<0>>
        tech_arrival_timestamps == calculate_technician_arrival_timestamps(new_tech)
        drone_arrival_timestamps ==
            calculate_drone_arrival_timestamps(new_drone, neighborhood_config_index,
                                               s.drone_timespans[drone])
    IN  [factory |-> SolutionFactory(<< <<drone, new_drone>> >>, <<>>, << <<technician, new_tech>> >>,
                        [s.drone_timespans EXCEPT ![drone] =
                            @ + Last(drone_arrival_timestamps) - drone_arrival_timestamps[1]],
                        [s.drone_waiting_times EXCEPT ![drone] = Append(@,
                            calculate_drone_total_waiting_time(new_drone, drone_arrival_timestamps))],
                        [s.technician_timespans EXCEPT ![technician] = Last(tech_arrival_timestamps)],
                        [s.technician_waiting_times EXCEPT ![technician] =
                            calculate_technician_total_waiting_time(new_tech, tech_arrival_timestamps)],
                        capacity_violation(new_drone) + energy_violation(new_drone)),
         pair |-> << <<tech_path[tech_point], tech_path[tech_point + length - 1]>>, <<0>> >>]

\* Insert.swap_technician_drone, one iteration of the loop over the existing drone paths
insert_technician_drone_move(s, technician, drone, drone_path_index, tech_point, drone_location, length) ==
    LET tech_path == s.technician_paths[technician]
        drone_path == s.drone_paths[drone][drone_path_index]
        new_tech == ReplaceSeg(tech_path, tech_point, length, <<>>)
        new_drone == InsertSeg(drone_path, drone_location, Segment(tech_path, tech_point, length))
        tech_arrival_timestamps == calculate_technician_arrival_timestamps(new_tech)
        drone_arrival_timestamps == new_drone_arrivals(s, drone, drone_path_index, new_drone)
    IN  [factory |-> SolutionFactory(<<>>, << <<drone, drone_path_index, new_drone>> >>,
                        << <<technician, new_tech>> >>,
                        shift_drone_timespan(s, s.drone_timespans, drone, drone_path_index,
                                             drone_arrival_timestamps),
                        [s.drone_waiting_times EXCEPT ![drone][drone_path_index] =
                            calculate_drone_total_waiting_time(new_drone, drone_arrival_timestamps)],
                        [s.technician_timespans EXCEPT ![technician] = Last(tech_arrival_timestamps)],
                        [s.technician_waiting_times EXCEPT ![technician] =
                            calculate_technician_total_waiting_time(new_tech, tech_arrival_timestamps)],
                        capacity_violation(new_drone) + energy_violation(new_drone)),
         pair |-> << <<tech_path[tech_point], tech_path[tech_point + length - 1]>>,
                     <<drone_path[drone_location]>> >>]

\* Insert.find_best_candidates.swap_technician_drone and Insert.swap_technician_drone
insert_technician_drone(s, length) ==
    UNION {
        UNION {
            {insert_technician_drone_new_move(s, pair[1], pair[2], tech_point, length)}
            \cup UNION {
                {insert_technician_drone_move(s, pair[1], pair[2], drone_path_index, tech_point,
                                              drone_location, length) :
                    drone_location \in 2..(Len(s.drone_paths[pair[2]][drone_path_index]) - 1)} :
                drone_path_index \in 1..Len(s.drone_paths[pair[2]])} :
            tech_point \in {p \in 2..(Len(s.technician_paths[pair[1]]) - length) :
                              dronable_segment(s.technician_paths[pair[1]], p, length)}} :
        pair \in (1..technicians_count) \X (1..drones_count)}

\* D2DPathSolution.get_neighborhoods; Swap.__init__ puts the longer length first
Swap(first_length, second_length) ==
    [kind |-> "Swap",
     first_length |-> IF first_length < second_length THEN second_length ELSE first_length,
     second_length |-> IF first_length < second_length THEN first_length ELSE second_length]

\* Swap.__init__ with its exception: what Swap(solution, first_length=..., second_length=...) gives
Swap_init(first_length, second_length) ==
    LET first == IF first_length < second_length THEN second_length ELSE first_length
        second == IF first_length < second_length THEN first_length ELSE second_length
    IN  IF second = 0
        THEN [kind |-> "NeighborhoodException", first_length |-> first, second_length |-> second]
        ELSE [kind |-> "Swap", first_length |-> first, second_length |-> second]

\* no Swap was constructed yet
NoNeighborhood == [args |-> <<>>, value |-> [kind |-> "none"]]

Insert(length) == [kind |-> "Insert", length |-> length]

get_neighborhoods == {Swap(1, 1), Swap(2, 1), Swap(2, 2), Insert(1), Insert(2)}

\* every SolutionFactory the workers of a neighborhood evaluate, with its tabu key
moves(neighborhood, s) ==
    IF neighborhood.kind = "Swap"
    THEN swap_drone_drone(s, neighborhood.first_length, neighborhood.second_length)
         \cup swap_technician_technician(s, neighborhood.first_length, neighborhood.second_length)
         \cup swap_technician_drone(s, neighborhood.first_length, neighborhood.second_length)
         \cup swap_drone_self(s, neighborhood.first_length, neighborhood.second_length)
         \cup swap_technician_self(s, neighborhood.first_length, neighborhood.second_length)
    ELSE insert_technician_technician(s, neighborhood.length)
         \cup insert_technician_drone(s, neighborhood.length)
         \cup insert_drone_technician(s, neighborhood.length)
         \cup insert_drone_drone(s, neighborhood.length)

\* the set `results` of find_best_candidates: the factories left by add_to_pareto_set
\* in the workers and in the callback (whole-second costs differ by more than the
\* tolerance or not at all, so the outcome does not depend on the order of the adds)
best_moves(neighborhood, s) ==
    LET all == moves(neighborhood, s)
    IN  {m \in all : ~\E o \in all : dominate(o.factory, m.factory)}

\* the solutions find_best_candidates yields (before the tabu registry marks them)
candidates(neighborhood, s) == {from_solution(m.factory, s) : m \in best_moves(neighborhood, s)}

----------------------------------------------------------------------------
(* Problem instances: the contents of a problem file and of the config files *)

Customer(x, y, demand, technician_only, technician_service, drone_service) ==
    [x |-> x, y |-> y, demand |-> demand, technician_only |-> technician_only,
     technician_service_time |-> technician_service, drone_service_time |-> drone_service]

\* D2DPathSolution.import_problem with import_config: index 0 is the depot
import_problem(customers, number_drone, truck, linear, mapping) ==
    LET n == Len(customers)
        column(field) == [i \in 0..n |-> IF i = 0 THEN 0 ELSE customers[i][field]]
    IN  [customers_count |-> n,
         drones_count |-> number_drone,
         technicians_count |-> number_drone,
         x |-> column("x"),
         y |-> column("y"),
         demands |-> column("demand"),
         dronable |-> [i \in 0..n |-> IF i = 0 THEN TRUE ELSE customers[i].technician_only = 0],
         technician_service_time |-> column("technician_service_time"),
         drone_service_time |-> column("drone_service_time"),
         drone_config_mapping |-> mapping,
         distances |-> euclidean_distances(column("x"), column("y")),
         truck_config |-> truck,
         drone_linear_config |-> linear]

\* TruckConfig: the velocity is 2 m/s in the first hour and 1 m/s in the second
TruckTwoSpeeds == [maximum_velocity |-> 1, coefficients |-> <<2, 1>>]

\* DroneLinearConfig: one configuration, used by every drone
LinearConfigs ==
    << [takeoff_speed |-> 10, cruise_speed |-> 10, landing_speed |-> 10, altitude |-> 20,
        capacity |-> 3, battery |-> 400, beta |-> 1, gamma |-> 1] >>

\* two drones and two technicians; customers 1 and 2 are dronable and lie on
\* opposite sides of the depot, customers 3 and 4 are technician-only
TwoVehicles ==
    import_problem(<< Customer(0 - 400, 0, 1, 0, 200, 100),
                      Customer(400, 0, 2, 0, 200, 100),
                      Customer(800, 0, 1, 1, 3000, 100),
                      Customer(0 - 1200, 0, 1, 1, 600, 100) >>,
                   2, TruckTwoSpeeds, LinearConfigs, <<1, 1>>)

Instances == {TwoVehicles}

----------------------------------------------------------------------------
(* Specification of the Pareto containers: any sequence of adds *)

\* abstract solutions: an identity (their paths) and a cost vector in ticks
Candidate(id, c1, c2) ==
    [drone_paths |-> <<id>>, technician_paths |-> <<>>, stored_cost |-> <<c1, c2>>]

CandidatePool ==
    { Candidate(1, 10 * Scale, 20 * Scale),
      Candidate(2, 10 * Scale, 15 * Scale),
      Candidate(3, 11 * Scale, 14 * Scale),
      Candidate(4, 10 * Scale + 3, 14 * Scale),
      Candidate(5, 10 * Scale - 3, 20 * Scale),
      Candidate(6, 10 * Scale, 15 * Scale),
      Candidate(7, 10 * Scale + 1, 15 * Scale - 1),
      Candidate(8, 12 * Scale, 20 * Scale),
      Candidate(9, 10 * Scale, 14 * Scale) }

TabuInit ==
    /\ tabu_list = <<>>
    /\ tabu_set = {}
    /\ maxlen = DefaultMaxlen
    /\ tabu_adds = <<>>
    /\ tabu_clean = TRUE

\* no add was made yet
NoAdd ==
    [kind |-> "none", added |-> TRUE, removed |-> {}, before |-> EmptyPlainSet, candidate |-> <<>>]

ParetoInit ==
    /\ results = EmptyParetoSet
    /\ plain = EmptyPlainSet
    /\ added = <<>>
    /\ plain_added = <<>>
    /\ ret = NoAdd

\* the instance that is loaded while the containers and the registry are exercised
D2DInit ==
    /\ problem = TwoVehicles
    /\ solution = initial
    /\ parent = solution
    /\ last_op = "initial"
    /\ new_swap = NoNeighborhood

\* tabu_search was not called
SearchIdle ==
    /\ params = [pool_size |-> 1, iterations_count |-> 0, max_propagation |-> 1,
                 tabu_size |-> DefaultMaxlen]
    /\ pc = "idle"
    /\ iteration = 0
    /\ current = <<>>
    /\ propagate = {}
    /\ extremes = <<>>
    /\ last_improved = 0
    /\ last_changed = 0
    /\ tabu = [class \in {"Swap", "Insert"} |-> [set |-> {}, list |-> <<>>, maxlen |-> DefaultMaxlen]]
    /\ tasks = <<>>
    /\ calls = <<>>
    /\ returned = {}

Init == ParetoInit /\ TabuInit /\ D2DInit /\ SearchIdle

ResultsAdd(s) ==
    /\ Len(added) + Len(plain_added) < MaxAdds
    /\ LET r == add_to_pareto_set(s, results) IN
        /\ results' = r.container
        /\ ret' = [kind |-> "pareto", added |-> r.added, removed |-> r.removed, before |-> results,
                   candidate |-> s]
    /\ added' = Append(added, s)
    /\ UNCHANGED <<plain, plain_added>>
    /\ UNCHANGED <<tabuVars, d2dVars, searchVars>>

PlainAdd(s) ==
    /\ Len(added) + Len(plain_added) < MaxAdds
    /\ LET r == add_to_pareto_set(s, plain) IN
        /\ plain' = r.container
        /\ ret' = [kind |-> "set", added |-> r.added, removed |-> r.removed, before |-> plain,
                   candidate |-> s]
    /\ plain_added' = Append(plain_added, s)
    /\ UNCHANGED <<results, added>>
    /\ UNCHANGED <<tabuVars, d2dVars, searchVars>>

ParetoNext ==
    \/ \E s \in CandidatePool : ResultsAdd(s)
    \/ \E s \in CandidatePool : PlainAdd(s)

ParetoSpec == Init /\ [][ParetoNext]_vars

----------------------------------------------------------------------------
(* Specification of the tabu registry: any sequence of add_to_tabu / reset_tabu *)

TabuKeys == 1..NumKeys

AddToTabu(target) ==
    /\ Len(tabu_adds) < MaxTabuAdds
    /\ LET reg == add_to_tabu(Registry, target) IN
        /\ tabu_set' = reg.set
        /\ tabu_list' = reg.list
        /\ maxlen' = reg.maxlen
    /\ tabu_adds' = Append(tabu_adds, target)
    /\ UNCHANGED tabu_clean
    /\ UNCHANGED <<paretoVars, d2dVars, searchVars>>

ResetTabu(m) ==
    /\ LET reg == reset_tabu(Registry, m) IN
        /\ tabu_set' = reg.set
        /\ tabu_list' = reg.list
        /\ maxlen' = reg.maxlen
    /\ tabu_adds' = IF tabu_set = {} THEN <<>> ELSE tabu_adds
    /\ tabu_clean' = (tabu_clean /\ tabu_set = {})
    /\ UNCHANGED <<paretoVars, d2dVars, searchVars>>

TabuNext ==
    \/ \E k \in TabuKeys : AddToTabu(k)
    \/ \E m \in 0..MaxCapacity : ResetTabu(m)

TabuSpec == Init /\ [][TabuNext]_vars

----------------------------------------------------------------------------
(* Specification of the D2D moves: from initial(), any sequence of           *)
(* candidates of the neighborhoods and of shuffles                          *)

ExploreInit ==
    /\ ParetoInit /\ TabuInit /\ SearchIdle
    /\ problem \in Instances
    /\ solution = initial
    /\ parent = solution
    /\ last_op = "initial"
    /\ new_swap = NoNeighborhood

Become(s, op) ==
    /\ solution' = s
    /\ parent' = solution
    /\ last_op' = op
    /\ UNCHANGED <<problem, new_swap, paretoVars, tabuVars, searchVars>>

\* one solution yielded by Swap.find_best_candidates replaces the current one
ApplySwap ==
    \E neighborhood \in {n \in get_neighborhoods : n.kind = "Swap"} :
        \E c \in candidates(neighborhood, solution) : Become(c, "Swap")

\* one solution yielded by Insert.find_best_candidates replaces the current one
ApplyInsert ==
    \E neighborhood \in {n \in get_neighborhoods : n.kind = "Insert"} :
        \E c \in candidates(neighborhood, solution) : Become(c, "Insert")

\* solution.shuffle() with any outcome of the coin flips
Shuffle ==
    \E drone_coins \in SUBSET path_slots(solution) :
        \E technician_coins \in SUBSET (1..technicians_count) :
            Become(shuffle(solution, drone_coins, technician_coins), "shuffle")

ExploreNext == ApplySwap \/ ApplyInsert \/ Shuffle

ExploreSpec == ExploreInit /\ [][ExploreNext]_vars

\* the same without shuffle
MovesSpec == ExploreInit /\ [][ApplySwap \/ ApplyInsert]_vars

\* Swap(solution, first_length=..., second_length=...) with any two lengths
Construct ==
    \E first_length, second_length \in 0..MaxLength :
        /\ new_swap' = [args |-> <<first_length, second_length>>,
                            value |-> Swap_init(first_length, second_length)]
        /\ UNCHANGED <<problem, solution, parent, last_op, paretoVars, tabuVars, searchVars>>

\* the construction of a Swap on the solutions that Swap candidates and shuffles reach
ConstructSpec == ExploreInit /\ [][ApplySwap \/ Shuffle \/ Construct]_vars

----------------------------------------------------------------------------
(* ts/abc/multi_ob/solutions.py: MultiObjectiveSolution.tabu_search, as run  *)
(* by d2d.py (propagation_priority_key = None, plot_pareto_front = False)   *)

\* one drone and one technician; the two dronable customers together weigh
\* more than the capacity of the drone
Overweight ==
    import_problem(<< Customer(400, 0, 2, 0, 200, 100),
                      Customer(800, 0, 2, 0, 200, 100) >>,
                   1, TruckTwoSpeeds, LinearConfigs, <<1>>)

\* two drones and two technicians; the two customers are technician-only, have
\* the same service time and lie at the same distance on opposite sides of the depot
Mirrored ==
    import_problem(<< Customer(200, 0, 1, 1, 100, 100),
                      Customer(0 - 200, 0, 1, 1, 100, 100) >>,
                   2, TruckTwoSpeeds, LinearConfigs, <<1, 1>>)

SearchInstances == {Overweight, Mirrored}

\* one drone and one technician; the three customers are technician-only, so the
\* technician visits them all on one path
OneTechnician ==
    import_problem(<< Customer(200, 0, 1, 1, 2000, 100),
                      Customer(0 - 400, 0, 1, 1, 0, 100),
                      Customer(600, 0, 1, 1, 3000, 100) >>,
                   1, TruckTwoSpeeds, LinearConfigs, <<1>>)

\* the command line of d2d.py: --pool-size, --iterations, --max-propagation, --tabu-size
SearchParams ==
    [pool_size : 1..MaxPoolSize,
     iterations_count : 0..MaxIterations,
     max_propagation : 1..MaxPropagation,
     tabu_size : {1, DefaultMaxlen}]

\* a task of thread_pool.map(process_solution, current) that no thread has taken yet
WaitingTask ==
    [stage |-> "waiting", remaining |-> {}, neighborhood |-> [kind |-> "none"], kind |-> "",
     pending |-> {}, pair |-> <<>>, candidate |-> <<>>, propagated |-> FALSE, improved |-> FALSE,
     sources |-> {}]

Running(task) == task.stage \in {"neighborhoods", "candidates", "tested", "yielded"}

\* ParetoSet([initial])
ParetoSetOf(s) == ParetoSet_add(EmptyParetoSet, s).container

\* d2d.py calls tabu_search with one of the parameters on one of the instances
SearchInitOn(parameters, instances) ==
    /\ params \in parameters
    /\ problem \in instances
    /\ solution = initial
    /\ parent = solution
    /\ last_op = "initial"
    /\ new_swap = NoNeighborhood
    /\ results = ParetoSetOf(solution)
    /\ ret = NoAdd
    /\ plain = EmptyPlainSet /\ added = <<>> /\ plain_added = <<>>
    /\ TabuInit
    /\ tabu = [class \in {"Swap", "Insert"} |->
                  reset_tabu([set |-> {}, list |-> <<>>, maxlen |-> DefaultMaxlen], params.tabu_size)]
    /\ current = <<solution>>
    /\ propagate = {}
    /\ extremes = <<cost(solution), cost(solution)>>
    /\ last_improved = 0
    /\ last_changed = 0
    /\ iteration = 0
    /\ tasks = <<>>
    /\ calls = <<>>
    /\ returned = {}
    /\ pc = "for"

SearchInit == SearchInitOn(SearchParams, SearchInstances)

InRangeShort(i, iterations_count) == i + 1 < iterations_count

\* range(iterations_count) has an item for the loop variable after i - 1
InRange(i, iterations_count) == i < iterations_count

restOfState == <<plain, added, plain_added, tabuVars, d2dVars, params>>

\* `for iteration in iterations`, before_iteration and the creation of the thread pool
BeginIteration ==
    /\ pc = "for"
    /\ InRange(iteration, params.iterations_count)
    /\ calls' = Append(calls, <<"before_iteration", iteration>>)
    /\ propagate' = {}
    /\ IF Min2(params.pool_size, Len(current)) < 1
       THEN pc' = "ValueError" /\ tasks' = <<>>
       ELSE pc' = "pool" /\ tasks' = [i \in 1..Len(current) |-> WaitingTask]
    /\ UNCHANGED <<results, ret, tabu, current, extremes, last_improved, last_changed, iteration,
                   returned, restOfState>>

\* task i is the next one to be taken and a thread of the pool is free
CanStart(i) ==
    /\ pc = "pool"
    /\ tasks[i].stage = "waiting"
    /\ \A j \in 1..(i - 1) : tasks[j].stage # "waiting"
    /\ Cardinality({j \in DOMAIN tasks : Running(tasks[j])}) < Min2(params.pool_size, Len(current))

\* process_solution is at `for neighborhood in neighborhoods`
AtNeighborhoods(i) == pc = "pool" /\ tasks[i].stage = "neighborhoods"

\* process_solution is at `for candidate in neighborhood.find_best_candidates(...)`
AtCandidates(i) == pc = "pool" /\ tasks[i].stage = "candidates" /\ tasks[i].pending # {}

\* thread_pool.map has all its results
MapReturned == pc = "pool" /\ \A i \in DOMAIN tasks : tasks[i].stage = "finished"

\* a thread of the pool takes the next solution of `current`
StartSolution(i) ==
    /\ CanStart(i)
    /\ tasks' = [tasks EXCEPT ![i] = [@ EXCEPT !.stage = "neighborhoods",
                                               !.remaining = get_neighborhoods]]
    /\ UNCHANGED <<pc, results, ret, tabu, current, propagate, extremes, last_improved, last_changed,
                   iteration, calls, returned, restOfState>>

\* the loop over the shuffled list of neighborhoods goes on to the next one for which
\* find_best_candidates yields something (one that yields nothing changes nothing),
\* or ends
NextNeighborhood(i) ==
    /\ AtNeighborhoods(i)
    /\ LET yielding == {n \in tasks[i].remaining : best_moves(n, current[i]) # {}}
       IN  IF yielding = {}
           THEN tasks' = [tasks EXCEPT ![i] = [@ EXCEPT !.stage = "finished"]]
           ELSE \E neighborhood \in yielding :
                   tasks' = [tasks EXCEPT ![i] = [@ EXCEPT
                       !.remaining = @ \ {neighborhood},
                       !.neighborhood = neighborhood,
                       !.kind = neighborhood.kind,
                       !.pending = best_moves(neighborhood, current[i]),
                       !.propagated = FALSE,
                       !.stage = "candidates"]]
    /\ UNCHANGED <<pc, results, ret, tabu, current, propagate, extremes, last_improved, last_changed,
                   iteration, calls, returned, restOfState>>

\* find_best_candidates without the tabu test: every candidate keeps to_propagate = true
TestTabuNever(i) ==
    /\ AtCandidates(i)
    /\ \E m \in tasks[i].pending :
        LET s == from_solution(m.factory, current[i])
        IN  tasks' = [tasks EXCEPT ![i] = [@ EXCEPT
                !.pending = @ \ {m}, !.pair = m.pair, !.candidate = s, !.stage = "tested"]]
    /\ UNCHANGED <<pc, results, ret, tabu, current, propagate, extremes, last_improved, last_changed,
                   iteration, calls, returned, restOfState>>

\* find_best_candidates takes the next result, materializes it and tests its key
\* against the tabu set of the class (no lock is held)
TestTabu(i) ==
    /\ AtCandidates(i)
    /\ \E m \in tasks[i].pending :
        LET s == from_solution(m.factory, current[i])
        IN  tasks' = [tasks EXCEPT ![i] = [@ EXCEPT
                !.pending = @ \ {m},
                !.pair = m.pair,
                !.candidate = [s EXCEPT !.to_propagate = ~(m.pair \in tabu[tasks[i].kind].set)],
                !.stage = "tested"]]
    /\ UNCHANGED <<pc, results, ret, tabu, current, propagate, extremes, last_improved, last_changed,
                   iteration, calls, returned, restOfState>>

\* find_best_candidates has tested the key of its candidate
AtTested(i) == pc = "pool" /\ tasks[i].stage = "tested"

\* self.add_to_tabu(pair) under the lock of the class, then `yield s`
YieldCandidate(i) ==
    /\ AtTested(i)
    /\ tabu' = [tabu EXCEPT ![tasks[i].kind] = add_to_tabu(@, tasks[i].pair)]
    /\ tasks' = [tasks EXCEPT ![i] = [@ EXCEPT !.stage = "yielded"]]
    /\ UNCHANGED <<pc, results, ret, current, propagate, extremes, last_improved, last_changed,
                   iteration, calls, returned, restOfState>>

\* the loop over the neighborhoods without the break
AfterCandidatesNoBreak(propagated) == "neighborhoods"

\* if propagated: break
AfterCandidates(propagated) == IF propagated THEN "finished" ELSE "neighborhoods"

\* process_solution has a candidate and waits for the lock
AtYielded(i) == pc = "pool" /\ tasks[i].stage = "yielded"

\* the body of the loop over the candidates, under the lock of tabu_search
HandleCandidate(i) ==
    /\ AtYielded(i)
    /\ LET candidate == tasks[i].candidate
           r == add_to_pareto_set(candidate, results)
           propagated == tasks[i].propagated \/ candidate.to_propagate
       IN  /\ results' = r.container
           /\ ret' = [kind |-> "pareto", added |-> r.added, removed |-> r.removed,
                      before |-> results, candidate |-> candidate]
           /\ last_changed' = IF r.container.cts # results.cts THEN iteration ELSE last_changed
           /\ propagate' = IF candidate.to_propagate /\ ~Member(candidate, propagate)
                           THEN propagate \cup {candidate} ELSE propagate
           /\ extremes' = << [d \in 1..2 |-> Min2(extremes[1][d], cost(candidate)[d])],
                             [d \in 1..2 |-> Max2(extremes[2][d], cost(candidate)[d])] >>
           /\ tasks' = [tasks EXCEPT ![i] = [@ EXCEPT
                   !.propagated = propagated,
                   !.improved = @ \/ r.added,
                   !.sources = IF candidate.to_propagate THEN @ \cup {tasks[i].neighborhood} ELSE @,
                   !.stage = IF tasks[i].pending # {} THEN "candidates"
                             ELSE AfterCandidates(propagated)]]
    /\ UNCHANGED <<pc, tabu, current, last_improved, iteration, calls, returned, restOfState>>

\* all orders of the elements of a list (random.shuffle)
Shuffled(list) == {[i \in DOMAIN list |-> list[order[i]]] : order \in Orderings(DOMAIN list)}

\* the whole list in the place of list[:max_propagation_value]
TruncatedNot(list, max_propagation) == list

\* no solution at all in the place of list[:max_propagation_value]
TruncatedToNone(list, max_propagation) == <<>>

\* propagate[:max_propagation_value]
Truncated(list, max_propagation) == SubSeq(list, 1, Min2(max_propagation, Len(list)))

\* the loop body without the shuffle of line 190
NothingPropagatedNever(list) == FALSE

\* if len(propagate) == 0
NothingPropagated(list) == list = {}

\* the rest of the loop body once thread_pool.map has returned
EndIteration ==
    /\ MapReturned
    /\ last_improved' = IF \E i \in DOMAIN tasks : tasks[i].improved THEN iteration ELSE last_improved
    /\ \E list \in IF ~NothingPropagated(propagate)
                   THEN Orderings(propagate)
                   ELSE UNION {Shuffled([i \in DOMAIN current |->
                                   shuffle(current[i], coins[i][1], coins[i][2])]) :
                               coins \in [DOMAIN current ->
                                   (SUBSET UNION {path_slots(c) : c \in Range(current)})
                                   \X (SUBSET (1..technicians_count))]} :
        current' = Truncated(list, params.max_propagation)
    /\ calls' = (IF NothingPropagated(propagate) THEN Append(calls, <<"shuffle", iteration>>)
                 ELSE calls)
                \o << <<"after_iteration", iteration>> >>
    /\ iteration' = iteration + 1
    /\ propagate' = {}
    /\ tasks' = <<>>
    /\ pc' = "for"
    /\ UNCHANGED <<results, ret, tabu, extremes, last_changed, returned, restOfState>>

\* post_optimization of every result (the default: the solution itself) and the return
PostOptimization ==
    /\ pc = "for"
    /\ ~InRange(iteration, params.iterations_count)
    /\ IF Cardinality(PySet(Members(results))) # results.length
       THEN pc' = "RuntimeError" /\ returned' = {}
       ELSE pc' = "returned" /\ returned' = PySet(Members(results))
    /\ UNCHANGED <<results, ret, tabu, current, propagate, extremes, last_improved, last_changed,
                   iteration, tasks, calls, restOfState>>

SearchNext ==
    \/ BeginIteration
    \/ \E i \in DOMAIN tasks : StartSolution(i)
    \/ \E i \in DOMAIN tasks : NextNeighborhood(i)
    \/ \E i \in DOMAIN tasks : TestTabu(i)
    \/ \E i \in DOMAIN tasks : YieldCandidate(i)
    \/ \E i \in DOMAIN tasks : HandleCandidate(i)
    \/ EndIteration
    \/ PostOptimization

SearchSpec == SearchInit /\ [][SearchNext]_vars

\* two threads of the pool on the instance with one technician path, two iterations
TwoThreads ==
    [pool_size |-> MaxPoolSize, iterations_count |-> 2, max_propagation |-> MaxPropagation,
     tabu_size |-> DefaultMaxlen]

TwoThreadsSpec == SearchInitOn({TwoThreads}, {OneTechnician}) /\ [][SearchNext]_vars

\* one thread on the instance with one technician path, long enough for the tabu
\* registry of Swap to hold every key of the candidates
LongRun ==
    [pool_size |-> 1, iterations_count |-> LongIterations, max_propagation |-> MaxPropagation,
     tabu_size |-> DefaultMaxlen]

LongRunSpec == SearchInitOn({LongRun}, {OneTechnician}) /\ [][SearchNext]_vars

\* a thread of the pool is inside process_solution with a statement to execute
PoolCanStep ==
    \E i \in DOMAIN tasks : AtNeighborhoods(i) \/ AtCandidates(i) \/ AtTested(i) \/ AtYielded(i)

\* a step of a thread of the pool inside process_solution
PoolStep ==
    \E i \in DOMAIN tasks :
        NextNeighborhood(i) \/ TestTabu(i) \/ YieldCandidate(i) \/ HandleCandidate(i)

\* the threads of the pool keep running: weak fairness of PoolStep, with its
\* enabling condition PoolCanStep (the guards of its actions) written out
PoolFairness == <>[]PoolCanStep => []<><<PoolStep>>_vars

\* the main thread goes on once thread_pool.map has returned: weak fairness of
\* EndIteration, with its enabling condition MapReturned (its guard) written out
MapFairness == <>[]MapReturned => []<><<EndIteration>>_vars

\* the main thread runs whenever it is not blocked, the pool hands every
\* submitted task to a free thread, and the threads of the pool keep running
FairSearchSpec ==
    /\ SearchSpec
    /\ WF_vars(BeginIteration)
    /\ WF_vars(\E i \in DOMAIN tasks : StartSolution(i))
    /\ PoolFairness
    /\ MapFairness
    /\ WF_vars(PostOptimization)

----------------------------------------------------------------------------
(* Claims about the Pareto containers (ParetoSpec) *)

\* the rounded cost vectors handed to results.add, in call order
AddedCosts == [i \in 1..Len(added) |-> RoundedCost(added[i])]

NonDominated(S) == {c \in S : ~\E d \in S : cost_dominate(d, c)}

\* C1: after any sequence of ParetoSet.add calls no stored cost key dominates
\* another stored cost key under cost_dominate.
C1_NoStoredKeyDominates ==
    \A a \in keys(results) : \A b \in keys(results) : ~cost_dominate(a, b)

\* C1 witness: an add evicted a dominated key and two keys are stored.
C1_Witness ==
    /\ ret.kind = "pareto" /\ ret.added /\ ret.removed # {}
    /\ Cardinality(keys(results)) >= 2

\* The part of C2 that is about ParetoSet.add alone: the stored keys are
\* exactly the non-dominated rounded costs of the solutions added.
KeysAreNonDominated == keys(results) = NonDominated(Range(AddedCosts))

\* C2: the stored keys are exactly the non-dominated rounded costs of the
\* solutions added, which is what build_pareto_front returns on them; adding
\* (10,20), (10,15), (11,14) leaves {(10,15), (11,14)}.
C2_KeysAreParetoFront ==
    /\ keys(results) = NonDominated(Range(AddedCosts))
    /\ keys(results) = build_pareto_front(AddedCosts)
    /\ added = <<Candidate(1, 10 * Scale, 20 * Scale),
                 Candidate(2, 10 * Scale, 15 * Scale),
                 Candidate(3, 11 * Scale, 14 * Scale)>>
         => keys(results) = {<<10 * Scale, 15 * Scale>>, <<11 * Scale, 14 * Scale>>}

RECURSIVE AddAll(_, _, _)
AddAll(ps, seq, order) ==
    IF order = <<>> THEN ps
    ELSE AddAll(ParetoSet_add(ps, seq[Head(order)]).container, seq, Tail(order))

----------------------------------------------------------------------------
(* Claims about the tabu registry (TabuSpec) *)

Distinct(seq) == \A i \in DOMAIN seq : \A j \in DOMAIN seq : i # j => seq[i] # seq[j]

LastN(seq, n) == SubSeq(seq, Len(seq) - n + 1, Len(seq))

\* C6: from an empty registry of capacity M, after K pairwise distinct keys
\* were added the registry holds exactly the last min(K, M) of them.
C6_LastKeysKept ==
    (tabu_clean /\ Distinct(tabu_adds)) =>
        /\ tabu_list = LastN(tabu_adds, Min2(Len(tabu_adds), maxlen))
        /\ tabu_set = Range(tabu_list)

\* C6 witness: more distinct keys were added than the capacity holds.
C6_Witness ==
    /\ tabu_clean /\ Distinct(tabu_adds)
    /\ maxlen >= 1 /\ Len(tabu_adds) > maxlen + 1

----------------------------------------------------------------------------
(* Claims about the D2D solutions (ExploreSpec) *)

Occurrences(seq, e) == Cardinality({i \in DOMAIN seq : seq[i] = e})

DepotEnds(path) == Len(path) >= 2 /\ path[1] = 0 /\ Last(path) = 0

\* C3: every solution reachable from initial() by candidates of Swap/Insert
\* and shuffle() holds every customer 1..n exactly once over all drone sorties
\* and technician paths, and every sortie and path starts and ends at depot 0.
C3_EveryCustomerOnce ==
    /\ \A c \in 1..customers_count : Occurrences(Visited(solution), c) = 1
    /\ Len(Visited(solution)) = customers_count
    /\ \A drone \in 1..Len(solution.drone_paths) :
        \A i \in 1..Len(solution.drone_paths[drone]) : DepotEnds(solution.drone_paths[drone][i])
    /\ Len(solution.drone_paths) = drones_count
    /\ Len(solution.technician_paths) = technicians_count
    /\ \A t \in 1..Len(solution.technician_paths) : DepotEnds(solution.technician_paths[t])

\* C3 witness: an Insert candidate that left a drone with one sortie less
\* than its parent (the emptied sortie was removed by from_solution).
C3_Witness ==
    /\ last_op = "Insert"
    /\ \E drone \in 1..drones_count :
        Len(solution.drone_paths[drone]) < Len(parent.drone_paths[drone])

\* a fresh D2DPathSolution made from the paths alone
Fresh(s) == D2DPathSolution(s.drone_paths, s.technician_paths, None, None, None, None, 0)

\* C4: the stored timespans, waiting times and cost of every reachable solution
\* equal those of a fresh D2DPathSolution built from its paths alone.
C4_StoredMetricsAreFresh ==
    /\ solution.drone_timespans = Fresh(solution).drone_timespans
    /\ solution.drone_waiting_times = Fresh(solution).drone_waiting_times
    /\ solution.technician_timespans = Fresh(solution).technician_timespans
    /\ solution.technician_waiting_times = Fresh(solution).technician_waiting_times
    /\ cost(solution) = cost(Fresh(solution))

\* C10: every outcome of shuffle() on a feasible solution is feasible and holds
\* the same multiset of customers.
C10_ShuffleKeepsFeasible ==
    (last_op = "shuffle" /\ feasible(parent)) =>
        /\ feasible(solution)
        /\ \A c \in 0..customers_count :
            Occurrences(Visited(solution), c) = Occurrences(Visited(parent), c)

----------------------------------------------------------------------------
(* Claims about tabu_search (SearchSpec, FairSearchSpec) *)

\* C5: a candidate that is not feasible is never inserted into the results
\* Pareto set (add_to_pareto_set returns false and no evicted element for it),
\* so every solution of the returned Pareto set is feasible.
C5_OnlyFeasibleResults ==
    /\ (ret.kind = "pareto" /\ ~feasible(ret.candidate)) => (~ret.added /\ ret.removed = {})
    /\ \A s \in Members(results) : feasible(s)
    /\ \A s \in returned : feasible(s)

\* the calls of the hooks in a run of n full iterations
RECURSIVE HookCalls(_)
HookCalls(n) ==
    IF n = 0 THEN <<>>
    ELSE HookCalls(n - 1) \o << <<"before_iteration", n - 1>>, <<"after_iteration", n - 1>> >>

IsHook(call) == call[1] # "shuffle"

IsShuffle(call) == call[1] = "shuffle"

\* C7: the loop body runs for iteration = 0, 1, ..., iterations_count - 1 in
\* this order, with before_iteration and after_iteration called once in each,
\* whatever candidates are found; no exception ends the run, and the run ends
\* with the post-optimization and the return of the results.
C7_LoopRunsToTheEnd ==
    <>(/\ pc = "returned"
       /\ iteration = params.iterations_count
       /\ SelectSeq(calls, IsHook) = HookCalls(params.iterations_count)
       /\ returned = PySet(Members(results)))

\* C7 witness: a run of the largest number of iterations has returned; in one
\* iteration it found no propagating candidate and called shuffle, in another
\* it did not.
C7_Witness ==
    /\ pc = "returned"
    /\ params.iterations_count = MaxIterations
    /\ Len(SelectSeq(calls, IsShuffle)) = 1

\* the frontier was built by the shuffle of the iteration that just ended
FrontierShuffled == \E k \in DOMAIN calls : calls[k] = <<"shuffle", iteration - 1>>

\* no two entries of the frontier are equal
FrontierDistinct == \A i, j \in DOMAIN current : i # j => ~SolEq(current[i], current[j])

\* C11: at the end of every iteration the frontier `current` holds at most
\* max_propagation solutions and no two equal solutions.
C11_FrontierBoundedDistinct ==
    (pc = "for" /\ iteration > 0) =>
        /\ Len(current) <= params.max_propagation
        /\ FrontierDistinct

\* C11 as amended: at the end of every iteration the frontier holds at most max_propagation
\* solutions, and no two equal solutions when it was built from propagated candidates
\* (the list made by the shuffle fallback is not deduplicated)
C11_DistinctUnlessShuffled ==
    (pc = "for" /\ iteration > 0) =>
        /\ Len(current) <= params.max_propagation
        /\ ~FrontierShuffled => FrontierDistinct

\* an iteration ended with a full frontier of two different propagated candidates
C11_Witness ==
    /\ pc = "for" /\ iteration > 0
    /\ params.max_propagation > 1
    /\ Len(current) = params.max_propagation
    /\ ~FrontierShuffled
    /\ FrontierDistinct

\* C12: between the iterations and at the return, last_improved is the index of
\* the latest iteration in which the contents of the results Pareto set changed
\* (0 if there was none); an iteration whose adds all leave the set unchanged
\* does not modify last_improved.
C12_LastImprovedIsLastChange ==
    pc \in {"for", "returned"} => last_improved = last_changed

\* the number of nodes (depots included) of the longest path of a solution
longest_path(s) ==
    LET lengths == {Len(s.technician_paths[k]) : k \in DOMAIN s.technician_paths}
                   \cup UNION {{Len(s.drone_paths[d][k]) : k \in DOMAIN s.drone_paths[d]} : d \in DOMAIN s.drone_paths}
    IN  CHOOSE n \in lengths : \A other \in lengths : other <= n

\* a Swap was constructed or its construction raised
Constructed == new_swap.args # <<>>

\* C13: Swap(solution, first_length=L1, second_length=L2) raises NeighborhoodException when
\* L2 = 0 or L1 exceeds the path length, and a Swap that is constructed has
\* first_length >= second_length >= 1
C13_SwapConstruction ==
    Constructed =>
        /\ (new_swap.args[2] = 0 \/ new_swap.args[1] > longest_path(solution))
               => new_swap.value.kind = "NeighborhoodException"
        /\ new_swap.value.kind = "Swap"
               => /\ new_swap.value.first_length >= new_swap.value.second_length
                  /\ new_swap.value.second_length >= 1

\* C13 (the part the code keeps): a zero length raises, and a constructed Swap has
\* first_length >= second_length >= 1
C13_ZeroLengthRaises ==
    Constructed =>
        /\ (new_swap.args[1] = 0 \/ new_swap.args[2] = 0)
               <=> new_swap.value.kind = "NeighborhoodException"
        /\ new_swap.value.kind = "Swap"
               => /\ new_swap.value.first_length >= new_swap.value.second_length
                  /\ new_swap.value.second_length >= 1

\* thread i makes the tabu test of find_best_candidates in this step
TestsKey(i) == tasks[i].stage = "candidates" /\ tasks'[i].stage = "tested"

\* thread i runs the body of the candidate loop of process_solution in this step
HandlesCandidate(i) == tasks[i].stage = "yielded" /\ tasks'[i].stage # "yielded"

SwapsBack(swap, s, m) ==
    LET child == from_solution(m.factory, s)
    IN  {b \in best_moves(swap, child) :
            /\ SolEq(from_solution(b.factory, child), s)
            /\ {b.pair[1], b.pair[2]} = {m.pair[1], m.pair[2]}}

\* C15: the tabu key of a Swap move is canonical: the move that swaps the same two segments
\* back in the child solution has the key recorded for the move itself
C15_SwapKeyCanonical ==
    \A swap \in {n \in get_neighborhoods : n.kind = "Swap"} :
        \A m \in best_moves(swap, solution) :
            \A b \in SwapsBack(swap, solution, m) : b.pair = m.pair

\* threads i and j have both tested the same key of the same class and neither has called
\* add_to_tabu for it yet
SameKeyInFlight(i, j) ==
    /\ i # j
    /\ AtTested(i) /\ AtTested(j)
    /\ tasks[i].kind = tasks[j].kind
    /\ tasks[i].pair = tasks[j].pair

\* C16: the tabu test and add_to_tabu are one atomic step under the lock of the class: of two
\* threads that produce a candidate with the same key of the same class, at most one gets
\* to_propagate = true
C16_TestAndAddAtomic ==
    \A i, j \in DOMAIN tasks :
        SameKeyInFlight(i, j) =>
            ~(tasks[i].candidate.to_propagate /\ tasks[j].candidate.to_propagate)

\* the list without its entries equal to target
Others(list, target) == SelectSeq(list, LAMBDA key : key # target)

\* C17: add_to_tabu(k) for a key k of the registry moves k to the tail of the deque and
\* changes nothing else: the set of keys, the size and the order of the other keys stay
\* as they were and no key is evicted
C17_ReAddMovesToTail ==
    [][\A k \in TabuKeys :
          (tabu_adds' = Append(tabu_adds, k) /\ k \in tabu_set) =>
              /\ tabu_set' = tabu_set
              /\ maxlen' = maxlen
              /\ Len(tabu_list') = Len(tabu_list)
              /\ tabu_list'[Len(tabu_list')] = k
              /\ Others(tabu_list', k) = Others(tabu_list, k)
              /\ Len(Others(tabu_list', k)) = Len(tabu_list') - 1]_vars

\* a key that stood before another key in the deque was added again and stands last
C17_Witness ==
    /\ tabu_clean /\ maxlen = DefaultMaxlen
    /\ Len(tabu_adds) = 4
    /\ tabu_adds[4] = tabu_adds[2]
    /\ Cardinality({tabu_adds[1], tabu_adds[2], tabu_adds[3]}) = 3
    /\ tabu_list = <<tabu_adds[1], tabu_adds[3], tabu_adds[2]>>

\* C18: for one solution of one iteration, process_solution stops at the first neighborhood
\* that yields a candidate with to_propagate = true: all it appends to propagate comes from
\* the neighborhood it invoked last, the loop goes on to another neighborhood only when
\* nothing was appended, and it ends without a propagated candidate only when every
\* neighborhood with candidates was invoked
C18_FirstProductiveNeighborhoodWins ==
    \A i \in DOMAIN tasks :
        /\ tasks[i].sources \subseteq {tasks[i].neighborhood}
        /\ tasks[i].stage = "neighborhoods" => tasks[i].sources = {}
        /\ (tasks[i].stage = "finished" /\ tasks[i].sources = {}) =>
                \A n \in tasks[i].remaining : best_moves(n, current[i]) = {}

\* process_solution ended after a neighborhood that propagated a candidate and left a
\* neighborhood with candidates uninvoked
C18_Witness ==
    \E i \in DOMAIN tasks :
        /\ tasks[i].stage = "finished"
        /\ tasks[i].sources = {tasks[i].neighborhood}
        /\ \E n \in tasks[i].remaining : best_moves(n, current[i]) # {}

\* t is s.shuffle() for some outcome of the coin flips
IsShuffleOf(t, s) ==
    \E drone_coins \in SUBSET path_slots(s) :
        \E technician_coins \in SUBSET (1..technicians_count) :
            SolEq(t, shuffle(s, drone_coins, technician_coins))

\* C19: at the end of an iteration in which no task appended a candidate to propagate, the
\* next frontier is made of s.shuffle() for the solutions s of current (reordered and
\* truncated); otherwise no shuffle is made and the next frontier holds only propagated
\* candidates, which have to_propagate = true
C19_ShuffleIffNothingPropagated ==
    [][(pc = "pool" /\ pc' = "for") =>
          IF \A i \in DOMAIN tasks : tasks[i].sources = {}
          THEN /\ calls' = calls \o << <<"shuffle", iteration>>, <<"after_iteration", iteration>> >>
               /\ Len(current') = Min2(params.max_propagation, Len(current))
               /\ \E f \in [DOMAIN current' -> DOMAIN current] :
                      /\ \A k, l \in DOMAIN current' : f[k] = f[l] => k = l
                      /\ \A k \in DOMAIN current' : IsShuffleOf(current'[k], current[f[k]])
          ELSE /\ calls' = Append(calls, <<"after_iteration", iteration>>)
               /\ current' # <<>>
               /\ \A k \in DOMAIN current' :
                      current'[k].to_propagate /\ Member(current'[k], propagate)]_vars

\* a frontier of two solutions built by the shuffle, after an earlier iteration that ended
\* with propagated candidates or with a shuffle of its own
C19_Witness ==
    /\ pc = "for" /\ iteration > 0
    /\ FrontierShuffled
    /\ Len(current) = 2
    /\ \E k \in DOMAIN calls : calls[k][1] = "after_iteration" /\ calls[k][2] < iteration - 1

\* the customers on the drone paths of s
on_drone_paths(s) ==
    UNION {UNION {{s.drone_paths[drone][i][p] : p \in DOMAIN s.drone_paths[drone][i]} \ {0} :
                  i \in DOMAIN s.drone_paths[drone]} :
           drone \in DOMAIN s.drone_paths}

\* the customers on the path of one technician of s
on_technician_path(s, technician) ==
    {s.technician_paths[technician][p] : p \in DOMAIN s.technician_paths[technician]} \ {0}

\* C20: no solution reached from initial() through Swap and Insert candidates has a
\* customer that is not dronable on a drone path
C20_NoTechnicianOnlyOnDronePath ==
    \A customer \in on_drone_paths(solution) : dronable[customer]

\* the last move took a customer from a technician path, on which a technician-only
\* customer stood as well, to a drone path
C20_Witness ==
    /\ last_op \in {"Swap", "Insert"}
    /\ \E technician \in 1..technicians_count :
           /\ \E customer \in on_technician_path(parent, technician) : ~dronable[customer]
           /\ \E customer \in on_technician_path(parent, technician) :
                  /\ customer \in on_drone_paths(solution)
                  /\ customer \notin on_drone_paths(parent)

\* the drone paths of s, whatever drone flies them and in whatever order
sub_paths(s) ==
    UNION {{s.drone_paths[drone][i] : i \in DOMAIN s.drone_paths[drone]} :
           drone \in DOMAIN s.drone_paths}

\* the same technician paths in the same order and the same set of drone paths
SameSubPaths(s, t) == s.technician_paths = t.technician_paths /\ sub_paths(s) = sub_paths(t)

\* some move that the neighborhood enumerates on c, kept by the Pareto filter or not,
\* builds s again, up to the assignment of the drone paths to the drones
LeadsBack(neighborhood, c, s) ==
    \E m \in moves(neighborhood, c) : SameSubPaths(from_solution(m.factory, c), s)

\* C21: every candidate that Insert(L) yields for the solution has, among the moves
\* Insert(L) enumerates on it, one that gives the solution back
C21_InsertReversible ==
    \A neighborhood \in {n \in get_neighborhoods : n.kind = "Insert"} :
        \A c \in candidates(neighborhood, solution) : LeadsBack(neighborhood, c, solution)

\* path with the segment of la nodes at a and the later segment of lb nodes at b exchanged,
\* each in its own orientation, node by node
exchanged(path, a, la, b, lb) ==
    [k \in 1..Len(path) |->
        IF k < a THEN path[k]
        ELSE IF k < a + lb THEN path[b + (k - a)]
        ELSE IF k < b + lb - la THEN path[k - lb + la]
        ELSE IF k < b + lb THEN path[a + (k - (b + lb - la))]
        ELSE path[k]]

\* the pairs of non-overlapping internal segments of a path with the given lengths, the
\* first of the two lengths belonging to the segment that comes first
segment_pairs(path, lengths) ==
    {q \in (2..(Len(path) - 1)) \X {lengths[1]} \X (2..(Len(path) - 1)) \X {lengths[2]} :
        q[1] + q[2] <= q[3] /\ q[3] + q[4] <= Len(path)}

\* the technician paths of the solutions the technician-self worker of Swap builds
technician_self_results(s, neighborhood) ==
    {from_solution(m.factory, s).technician_paths :
        m \in swap_technician_self(s, neighborhood.first_length, neighborhood.second_length)}

\* the drone paths of the solutions the drone-self worker of Swap builds
drone_self_results(s, neighborhood) ==
    {from_solution(m.factory, s).drone_paths :
        m \in swap_drone_self(s, neighborhood.first_length, neighborhood.second_length)}

\* s.technician_paths with one path replaced by each exchange of a pair of segments
technician_exchanges(s, orders) ==
    UNION {UNION {{[s.technician_paths EXCEPT ![technician] = exchanged(@, q[1], q[2], q[3], q[4])] :
                      q \in segment_pairs(s.technician_paths[technician], lengths)} :
                  lengths \in orders} :
           technician \in DOMAIN s.technician_paths}

\* s.drone_paths with one path replaced by each exchange of a pair of segments
drone_exchanges(s, orders) ==
    UNION {UNION {{[s.drone_paths EXCEPT ![slot[1]][slot[2]] = exchanged(@, q[1], q[2], q[3], q[4])] :
                      q \in segment_pairs(s.drone_paths[slot[1]][slot[2]], lengths)} :
                  lengths \in orders} :
           slot \in path_slots(s)}

\* C22: the self workers of Swap(L1, L2) build exactly the paths in which two
\* non-overlapping internal segments of lengths L1 and L2 are exchanged, with the segment
\* of length L1 before the one of length L2 and with it after
C22_SelfSwapBothOrders ==
    \A neighborhood \in {n \in get_neighborhoods : n.kind = "Swap"} :
        LET orders == {<<neighborhood.first_length, neighborhood.second_length>>,
                       <<neighborhood.second_length, neighborhood.first_length>>}
        IN  /\ technician_self_results(solution, neighborhood) = technician_exchanges(solution, orders)
            /\ drone_self_results(solution, neighborhood) = drone_exchanges(solution, orders)

\* the part of C22 that the code keeps: the same with the segment of length L1 first only
C22_FirstLengthFirst ==
    \A neighborhood \in {n \in get_neighborhoods : n.kind = "Swap"} :
        LET orders == {<<neighborhood.first_length, neighborhood.second_length>>}
        IN  /\ technician_self_results(solution, neighborhood) = technician_exchanges(solution, orders)
            /\ drone_self_results(solution, neighborhood) = drone_exchanges(solution, orders)

----------------------------------------------------------------------------
(* Specification of the merge of find_best_candidates: the moves of a neighborhood in
   the order of their enumeration (plain_added), split into bundles for pool_size
   workers, and the set `results` of the callback (plain) *)

\* the loop of a worker and of the callback: add_to_pareto_set of each item in turn
RECURSIVE add_each(_, _)
add_each(container, list) ==
    IF list = <<>> THEN container
    ELSE add_each(add_to_pareto_set(Head(list), container).container, Tail(list))

\* next(bundle_iter).data.append(...): bundle w of pool_size gets every pool_size-th item
bundle(list, pool_size, w) ==
    [k \in 1..(IF w > Len(list) THEN 0 ELSE (Len(list) - w) \div pool_size + 1) |->
        list[w + (k - 1) * pool_size]]

\* the set a worker returns for its bundle
worker_results(list, pool_size, w) == add_each(EmptyPlainSet, bundle(list, pool_size, w)).items

\* the orders in which callback can meet the items of collected: the workers' sets in the
\* order of the bundles, each set in any order of iteration
RECURSIVE collected_orders(_, _, _)
collected_orders(list, pool_size, w) ==
    IF w > pool_size THEN {<<>>}
    ELSE {first \o rest : first \in Orderings(worker_results(list, pool_size, w)),
                          rest \in collected_orders(list, pool_size, w + 1)}

\* the sets `results` that find_best_candidates can be left with
find_best_results(list, pool_size) ==
    {add_each(EmptyPlainSet, order) : order \in collected_orders(list, pool_size, 1)}

\* a worker evaluates one more move
EnumerateMove(s) ==
    /\ Len(plain_added) < MaxMoves
    /\ ~\E k \in DOMAIN plain_added : SolEq(plain_added[k], s)
    /\ plain_added' = Append(plain_added, s)
    /\ plain' = EmptyPlainSet
    /\ ret' = NoAdd
    /\ UNCHANGED <<results, added>>
    /\ UNCHANGED <<tabuVars, d2dVars, searchVars>>

\* find_best_candidates runs the workers on pool_size bundles and merges what they return
FindBestCandidates(pool_size) ==
    /\ plain_added # <<>>
    /\ \E merged \in find_best_results(plain_added, pool_size) : plain' = merged
    /\ ret' = [NoAdd EXCEPT !.kind = "find_best_candidates"]
    /\ UNCHANGED <<results, added, plain_added>>
    /\ UNCHANGED <<tabuVars, d2dVars, searchVars>>

CandidatesNext ==
    \/ \E s \in CandidatePool : EnumerateMove(s)
    \/ \E pool_size \in 1..MaxPoolSize : FindBestCandidates(pool_size)

CandidatesSpec == Init /\ [][CandidatesNext]_vars

\* the cost vectors of a set of moves
costs_of(S) == {cost(s) : s \in S}

\* the costs of the enumerated moves that no enumerated move dominates
pareto_front(list) ==
    {cost(list[k]) : k \in {k \in DOMAIN list : ~\E j \in DOMAIN list : dominate(list[j], list[k])}}

\* C23: the cost vectors of the candidates find_best_candidates is left with are the Pareto
\* front of the enumerated moves, for every pool_size and every order of the merge
C23_MergeIsParetoFront ==
    /\ ret.kind = "find_best_candidates" => costs_of(plain.items) = pareto_front(plain_added)
    /\ \A pool_size, other \in 1..MaxPoolSize :
           \A merged \in find_best_results(plain_added, pool_size) :
               \A second \in find_best_results(plain_added, other) :
                   costs_of(merged.items) = costs_of(second.items)

\* D2DPathSolution.__hash__: the tuple that is hashed
solution_hash(s) == <<s.drone_paths, s.technician_paths>>

\* C24: a solution that has the technician paths of the initial solution and the same set
\* of drone paths, assigned to the drones differently or not, is equal to it and has its
\* hash; and a solution equal to the initial one has its hash
C24_EqualUpToDroneAssignment ==
    /\ SameSubPaths(solution, initial) =>
           SolEq(solution, initial) /\ solution_hash(solution) = solution_hash(initial)
    /\ SolEq(solution, initial) => solution_hash(solution) = solution_hash(initial)

\* the part of C24 that the code keeps: equal solutions, here a solution and the parent
\* it was built from or the initial solution, have equal hashes
C24_EqualHaveEqualHashes ==
    \A t \in {parent, initial} : SolEq(solution, t) => solution_hash(solution) = solution_hash(t)

----------------------------------------------------------------------------
(* d2d.py: the propagation priority keys. A float is an exact fraction num / den,
   den > 0, in lowest terms; error stands for the ValueError of normalization *)

RECURSIVE gcd(_, _)
gcd(a, b) == IF b = 0 THEN a ELSE gcd(b, a % b)

Rat(num, den) ==
    LET g == gcd(Abs(num), den)
    IN  [num |-> (IF num < 0 THEN 0 - (Abs(num) \div g) ELSE num \div g), den |-> den \div g,
         error |-> FALSE]

Raised == [num |-> 0, den |-> 1, error |-> TRUE]

RatAdd(a, b) ==
    IF a.error \/ b.error THEN Raised ELSE Rat(a.num * b.den + b.num * a.den, a.den * b.den)

RatTimes(k, a) == IF a.error THEN Raised ELSE Rat(k * a.num, a.den)

RatNeg(a) == [a EXCEPT !.num = 0 - @]

RatLess(a, b) == a.num * b.den < b.num * a.den

\* a cost or a sum of costs, kept in ticks, as a float
FromTicks(x) == Rat(x, Scale)

RECURSIVE RatSum(_, _)
RatSum(terms, S) ==
    IF S = {} THEN Rat(0, 1)
    ELSE LET k == CHOOSE k \in S : TRUE IN RatAdd(terms[k], RatSum(terms, S \ {k}))

\* ParetoSet.counter
counter(ps) == [k \in DOMAIN ps.cts |-> Cardinality(ps.cts[k])]

\* normalization(value, minimum, maximum); value, minimum and maximum in ticks
normalization(value, minimum, maximum) ==
    IF maximum - minimum = 0
    THEN IF ~isclose(value, 0) THEN Raised ELSE Rat(0, 1)
    ELSE Rat(value, maximum - minimum)

\* counter * abs(pareto_cost[0] - cost[0]) + abs(pareto_cost[1] - cost[1])
no_normalize_term(count, pareto_cost, c) ==
    FromTicks(count * Abs(pareto_cost[1] - c[1]) + Abs(pareto_cost[2] - c[2]))

_min_distance_key_no_normalize(pareto_costs, minimum, maximum, candidate) ==
    RatSum([k \in DOMAIN pareto_costs |-> no_normalize_term(pareto_costs[k], k, cost(candidate))],
           DOMAIN pareto_costs)

_max_distance_key_no_normalize(pareto_costs, minimum, maximum, candidate) ==
    RatNeg(_min_distance_key_no_normalize(pareto_costs, minimum, maximum, candidate))

_min_distance_key(pareto_costs, minimum, maximum, candidate) ==
    RatSum([k \in DOMAIN pareto_costs |->
                RatTimes(pareto_costs[k],
                         RatAdd(normalization(Abs(k[1] - cost(candidate)[1]), minimum[1], maximum[1]),
                                normalization(Abs(k[2] - cost(candidate)[2]), minimum[2], maximum[2])))],
           DOMAIN pareto_costs)

_max_distance_key(pareto_costs, minimum, maximum, candidate) ==
    RatNeg(_min_distance_key(pareto_costs, minimum, maximum, candidate))

\* ideal = (min(cost[0] for cost in pareto_costs.keys()), min(cost[1] for ...))
ideal_point(pareto_costs) ==
    [d \in 1..2 |-> CHOOSE x \in {k[d] : k \in DOMAIN pareto_costs} :
                        \A k \in DOMAIN pareto_costs : x <= k[d]]

_ideal_distance_key_no_normalize(pareto_costs, minimum, maximum, candidate) ==
    LET ideal == ideal_point(pareto_costs)
    IN  FromTicks(Abs(ideal[1] - cost(candidate)[1]) + Abs(ideal[2] - cost(candidate)[2]))

_ideal_distance_key(pareto_costs, minimum, maximum, candidate) ==
    LET ideal == ideal_point(pareto_costs)
    IN  RatAdd(normalization(Abs(ideal[1] - cost(candidate)[1]), minimum[1], maximum[1]),
               normalization(Abs(ideal[2] - cost(candidate)[2]), minimum[2], maximum[2]))

PriorityKeys ==
    {"min-distance", "max-distance", "ideal-distance",
     "min-distance-no-normalize", "max-distance-no-normalize", "ideal-distance-no-normalize"}

\* the function that --propagation-priority selects
propagation_priority_key(name, pareto_costs, minimum, maximum, candidate) ==
    CASE name = "min-distance" -> _min_distance_key(pareto_costs, minimum, maximum, candidate)
      [] name = "max-distance" -> _max_distance_key(pareto_costs, minimum, maximum, candidate)
      [] name = "ideal-distance" -> _ideal_distance_key(pareto_costs, minimum, maximum, candidate)
      [] name = "min-distance-no-normalize" ->
            _min_distance_key_no_normalize(pareto_costs, minimum, maximum, candidate)
      [] name = "max-distance-no-normalize" ->
            _max_distance_key_no_normalize(pareto_costs, minimum, maximum, candidate)
      [] name = "ideal-distance-no-normalize" ->
            _ideal_distance_key_no_normalize(pareto_costs, minimum, maximum, candidate)

\* the key of a candidate as tabu_search calls it: partial(key, pareto_counter, *extremes)
key_of(candidate) ==
    propagation_priority_key(params.propagation_priority, counter(results), extremes[1], extremes[2],
                             candidate)

\* the lists propagate.sort(key=...) can give: list(set(propagate)) has any order and the
\* sort is stable, so candidates with equal keys can come out in either order
sorted_by_key(S) ==
    {list \in Orderings(S) :
        \A i, j \in DOMAIN list : i < j => ~RatLess(key_of(list[j]), key_of(list[i]))}

----------------------------------------------------------------------------
(* Specification of the propagation priority: one iteration of tabu_search on
   abstract candidates, which all propagate, sorted by each of the keys *)

PriorityPool ==
    { Candidate(1, 1 * Scale, 5 * Scale),
      Candidate(2, 3 * Scale, 3 * Scale),
      Candidate(3, 1 * Scale, 5 * Scale),
      Candidate(4, 2 * Scale, 4 * Scale),
      Candidate(5, 3 * Scale, 5 * Scale) }

PriorityInit ==
    /\ TabuInit /\ D2DInit
    /\ plain = EmptyPlainSet /\ added = <<>> /\ plain_added = <<>> /\ ret = NoAdd
    /\ params \in {[pool_size |-> 1, iterations_count |-> 1, max_propagation |-> MaxHandled,
                    tabu_size |-> DefaultMaxlen, propagation_priority |-> name] :
                       name \in PriorityKeys}
    /\ \E s \in PriorityPool :
           /\ results = ParetoSet_add(EmptyParetoSet, s).container
           /\ current = <<s>>
           /\ extremes = <<cost(s), cost(s)>>
    /\ pc = "pool"
    /\ iteration = 0
    /\ propagate = {}
    /\ last_improved = 0
    /\ last_changed = 0
    /\ tabu = [class \in {"Swap", "Insert"} |-> [set |-> {}, list |-> <<>>, maxlen |-> DefaultMaxlen]]
    /\ tasks = <<>>
    /\ calls = <<>>
    /\ returned = {}

\* the body of the loop over the candidates for a candidate with to_propagate = true
HandlePropagating(candidate) ==
    /\ pc = "pool"
    /\ Cardinality(propagate) < MaxHandled
    /\ ~Member(candidate, propagate)
    /\ ~Member(candidate, {current[1]})
    /\ LET r == add_to_pareto_set(candidate, results)
       IN  /\ results' = r.container
           /\ ret' = [kind |-> "pareto", added |-> r.added, removed |-> r.removed,
                      before |-> results, candidate |-> candidate]
    /\ propagate' = propagate \cup {candidate}
    /\ extremes' = << [d \in 1..2 |-> Min2(extremes[1][d], cost(candidate)[d])],
                      [d \in 1..2 |-> Max2(extremes[2][d], cost(candidate)[d])] >>
    /\ UNCHANGED <<pc, tabu, tasks, current, last_improved, last_changed, iteration, calls, returned,
                   restOfState>>

\* propagate.sort(key=partial(propagation_priority_key, pareto_counter, *extremes)) and
\* current = propagate[:max_propagation_value]
SortPropagate ==
    /\ pc = "pool"
    /\ propagate # {}
    /\ IF \E s \in propagate : key_of(s).error
       THEN pc' = "ValueError" /\ UNCHANGED current
       ELSE /\ pc' = "sorted"
            /\ \E list \in sorted_by_key(propagate) : current' = Truncated(list, params.max_propagation)
    /\ UNCHANGED <<results, ret, tabu, tasks, propagate, extremes, last_improved, last_changed,
                   iteration, calls, returned, restOfState>>

PriorityNext == (\E candidate \in PriorityPool : HandlePropagating(candidate)) \/ SortPropagate

PrioritySpec == PriorityInit /\ [][PriorityNext]_vars

\* the candidates of the scenario of C25 and its state
OneFive == <<1 * Scale, 5 * Scale>>
ThreeThree == <<3 * Scale, 3 * Scale>>
IdealDistanceScenario ==
    /\ params.propagation_priority = "ideal-distance"
    /\ Cardinality(propagate) = 2 /\ costs_of(propagate) = {OneFive, ThreeThree}
    /\ ideal_point(counter(results)) = <<1 * Scale, 3 * Scale>>
    /\ extremes[2] = <<3 * Scale, 5 * Scale>>

\* C25: with the candidates (1,5) and (3,3), the ideal point (1,3) and the maxima (3,5),
\* the ideal-distance key of (1,5) is smaller than that of (3,3), and the sort puts (1,5)
\* first
C25_IdealDistanceOrder ==
    IdealDistanceScenario =>
        /\ \A s, u \in propagate :
               (cost(s) = OneFive /\ cost(u) = ThreeThree) => RatLess(key_of(s), key_of(u))
        /\ pc = "sorted" => cost(current[1]) = OneFive

\* the sum over the Pareto costs of counter x (|difference in objective 1| + |difference
\* in objective 2|)
weighted_distance(pareto_costs, candidate) ==
    RatSum([k \in DOMAIN pareto_costs |->
                FromTicks(pareto_costs[k] * (Abs(k[1] - cost(candidate)[1])
                                             + Abs(k[2] - cost(candidate)[2])))],
           DOMAIN pareto_costs)

\* a minimum and a maximum whose difference is 1 in both objectives
UnitWidth == << <<0, 0>>, <<Scale, Scale>> >>

\* C26: for the counter of the Pareto set and every candidate, min-distance-no-normalize
\* is min-distance with ranges of width 1, which is the sum of counter x (|d1| + |d2|), and
\* max-distance-no-normalize is max-distance with such ranges, the same sum negated
C26_NoNormalizeIsUnitWidth ==
    \A candidate \in PriorityPool :
        LET pareto_costs == counter(results)
            minimum == extremes[1]
            maximum == extremes[2]
        IN  /\ _min_distance_key_no_normalize(pareto_costs, minimum, maximum, candidate)
                  = _min_distance_key(pareto_costs, UnitWidth[1], UnitWidth[2], candidate)
            /\ _min_distance_key_no_normalize(pareto_costs, minimum, maximum, candidate)
                  = weighted_distance(pareto_costs, candidate)
            /\ _max_distance_key_no_normalize(pareto_costs, minimum, maximum, candidate)
                  = _max_distance_key(pareto_costs, UnitWidth[1], UnitWidth[2], candidate)
            /\ _max_distance_key_no_normalize(pareto_costs, minimum, maximum, candidate)
                  = RatNeg(weighted_distance(pareto_costs, candidate))

\* the part of C26 that the code keeps: min-distance with ranges of width 1 is the sum of
\* counter x (|d1| + |d2|), and the keys without normalization equal it when every Pareto
\* cost is the cost of one solution
C26_UnitWidthIsWeightedDistance ==
    \A candidate \in PriorityPool :
        LET pareto_costs == counter(results)
        IN  /\ _min_distance_key(pareto_costs, UnitWidth[1], UnitWidth[2], candidate)
                  = weighted_distance(pareto_costs, candidate)
            /\ (\A k \in DOMAIN pareto_costs : pareto_costs[k] = 1) =>
                  _min_distance_key_no_normalize(pareto_costs, extremes[1], extremes[2], candidate)
                      = weighted_distance(pareto_costs, candidate)

\* C27: after any sequence of ParetoSet.add calls, len(pareto_set) is the number of
\* distinct solutions that iterating the set gives
C27_LengthIsNumberOfMembers ==
    results.length = Cardinality(PySet(Members(results)))

\* the last add evicted the solutions stored under two cost keys and left the set with
\* the added solution alone
C27_Witness ==
    /\ ret.kind = "pareto" /\ ret.added
    /\ Cardinality({RoundedCost(s) : s \in ret.removed}) >= 2
    /\ results.length = 1

\* C28: after every add_to_tabu and reset_tabu call on a neighborhood class, tabu_set is
\* the set of the entries of _tabu_list, no key stands twice in _tabu_list and there are at
\* most _maxlen keys
C28_RegistryConsistent ==
    /\ tabu_set = Range(tabu_list)
    /\ Distinct(tabu_list)
    /\ Cardinality(tabu_set) <= maxlen

\* a registry that a reset_tabu call met with keys, full at its capacity, after some key
\* was added more than once
C28_Witness ==
    /\ ~tabu_clean
    /\ maxlen >= 1 /\ Cardinality(tabu_set) = maxlen
    /\ Len(tabu_adds) > Cardinality(Range(tabu_adds))
    /\ Cardinality(Range(tabu_adds)) > maxlen

\* C29: with max_propagation >= 1, current is not empty when an iteration starts, and the
\* thread pool of the iteration is never created with size 0
C29_CurrentNeverEmpty ==
    /\ pc # "ValueError"
    /\ pc \in {"for", "pool"} => current # <<>>
    /\ pc = "pool" => Min2(params.pool_size, Len(current)) >= 1 /\ Len(tasks) = Len(current)

\* the thread pool of the third iteration runs on a frontier that the shuffle built
C29_Witness ==
    /\ pc = "pool" /\ iteration = 2
    /\ FrontierShuffled
    /\ params.max_propagation >= 1

----------------------------------------------------------------------------
(* Specification of the locks of one iteration: the threads of thread_pool.map at the
   granularity of the lock acquisitions. A task is [stage, holds, class, key, left]:
   holds is the set of locks its thread holds, "lock" for the lock of tabu_search and the
   name of a neighborhood class for the _tabu_lock of that class; left is the number of
   candidates its generators still yield *)

LockKeys == { << <<1, 1>>, <<2, 2>> >>, << <<2, 2>>, <<1, 1>> >> }

WaitingThread == [stage |-> "waiting", holds |-> {}, class |-> "Swap", key |-> << <<1, 1>>, <<2, 2>> >>,
                  left |-> 0]

LocksInit ==
    /\ ParetoInit /\ TabuInit /\ D2DInit
    /\ params = [pool_size |-> MaxPoolSize, iterations_count |-> 1, max_propagation |-> MaxPoolSize,
                 tabu_size |-> DefaultMaxlen]
    /\ pc = "pool"
    /\ iteration = 0
    /\ current = <<solution, solution>>
    /\ propagate = {}
    /\ extremes = <<cost(solution), cost(solution)>>
    /\ last_improved = 0
    /\ last_changed = 0
    /\ tabu = [class \in {"Swap", "Insert"} |-> [set |-> {}, list |-> <<>>, maxlen |-> DefaultMaxlen]]
    /\ tasks = [i \in 1..MaxPoolSize |-> WaitingThread]
    /\ calls = <<>>
    /\ returned = {}

\* the locks a thread holds when it leaves the `with lock:` block without releasing
after_body_keep(holds) == holds

\* the locks a thread holds when it leaves the `with lock:` block
after_body(holds) == holds \ {"lock"}

LocksUnchanged ==
    UNCHANGED <<results, ret, current, propagate, extremes, last_improved, last_changed, iteration,
                calls, returned, restOfState>>

\* a thread of the pool takes task i: process_solution begins
StartThread(i) ==
    /\ pc = "pool" /\ tasks[i].stage = "waiting"
    /\ \E left \in 0..MaxYields : tasks' = [tasks EXCEPT ![i].stage = "generator", ![i].left = left]
    /\ UNCHANGED <<pc, tabu>> /\ LocksUnchanged

\* next() on the generator of a neighborhood: the key of the next candidate is tested
TestKey(i) ==
    /\ tasks[i].stage = "generator" /\ tasks[i].left > 0
    /\ \E class \in {"Swap", "Insert"}, key \in LockKeys :
           tasks' = [tasks EXCEPT ![i].stage = "tested", ![i].class = class, ![i].key = key]
    /\ UNCHANGED <<pc, tabu>> /\ LocksUnchanged

\* add_to_tabu: with cls._tabu_lock (entry)
AcquireTabuLock(i) ==
    /\ tasks[i].stage = "tested"
    /\ \A j \in DOMAIN tasks : tasks[i].class \notin tasks[j].holds
    /\ tasks' = [tasks EXCEPT ![i].stage = "adding", ![i].holds = @ \cup {tasks[i].class}]
    /\ UNCHANGED <<pc, tabu>> /\ LocksUnchanged

\* add_to_tabu: the body and the exit of the with block; the generator yields
AddAndYield(i) ==
    /\ tasks[i].stage = "adding"
    /\ tabu' = [tabu EXCEPT ![tasks[i].class] = add_to_tabu(@, tasks[i].key)]
    /\ tasks' = [tasks EXCEPT ![i].stage = "yielded", ![i].holds = @ \ {tasks[i].class}]
    /\ UNCHANGED pc /\ LocksUnchanged

\* process_solution: with lock (entry)
AcquireLock(i) ==
    /\ tasks[i].stage = "yielded"
    /\ \A j \in DOMAIN tasks : "lock" \notin tasks[j].holds
    /\ tasks' = [tasks EXCEPT ![i].stage = "body", ![i].holds = @ \cup {"lock"}]
    /\ UNCHANGED <<pc, tabu>> /\ LocksUnchanged

\* process_solution: the body and the exit of the with block, back to the generator
LeaveBody(i) ==
    /\ tasks[i].stage = "body"
    /\ tasks' = [tasks EXCEPT ![i].stage = "generator", ![i].holds = after_body(@),
                               ![i].left = @ - 1]
    /\ UNCHANGED <<pc, tabu>> /\ LocksUnchanged

\* the generators are exhausted or the loop over the neighborhoods was left
ReturnImproved(i) ==
    /\ tasks[i].stage = "generator" /\ tasks[i].left = 0
    /\ tasks' = [tasks EXCEPT ![i].stage = "finished"]
    /\ UNCHANGED <<pc, tabu>> /\ LocksUnchanged

\* thread_pool.map returns
MapReturns ==
    /\ pc = "pool"
    /\ \A i \in DOMAIN tasks : tasks[i].stage = "finished"
    /\ pc' = "for"
    /\ UNCHANGED <<tasks, tabu>> /\ LocksUnchanged

ThreadStep(i) ==
    \/ StartThread(i) \/ TestKey(i) \/ AcquireTabuLock(i) \/ AddAndYield(i)
    \/ AcquireLock(i) \/ LeaveBody(i) \/ ReturnImproved(i)

LocksNext == (\E i \in 1..MaxPoolSize : ThreadStep(i)) \/ MapReturns

LocksSpec == LocksInit /\ [][LocksNext]_vars

\* every thread that can take a step takes one, and map returns once its threads are done
FairLocksSpec ==
    LocksSpec /\ (\A i \in 1..MaxPoolSize : WF_vars(ThreadStep(i))) /\ WF_vars(MapReturns)

\* no thread holds or waits for one of the two kinds of lock while it holds the other
LockDiscipline ==
    \A i \in DOMAIN tasks :
        /\ ~("lock" \in tasks[i].holds /\ tasks[i].holds \ {"lock"} # {})
        /\ tasks[i].stage \in {"tested", "yielded"} => tasks[i].holds = {}

\* C30: no thread of the pool holds the lock of tabu_search and the lock of a tabu registry
\* together or waits for one of them while it holds the other, and every thread_pool.map
\* call returns
C30_NoLockNestingMapReturns ==
    /\ []LockDiscipline
    /\ (pc = "pool") ~> (pc = "for")

\* one thread is inside the locked body of process_solution while another is inside
\* add_to_tabu
C30_Witness ==
    \E i, j \in DOMAIN tasks :
        /\ tasks[i].stage = "body" /\ "lock" \in tasks[i].holds
        /\ tasks[j].stage = "adding" /\ tasks[j].holds \ {"lock"} # {}

====
